---- MODULE Spec2Model ----
(***************************************************************************)
(* A model of qjson_decode (src/src/qjson.c): the tokenizer, the numeric   *)
(* expression evaluator and the structural parser that turns qjson text    *)
(* into JSON text or into a diagnostic.                                    *)
(*                                                                         *)
(* The input and the output are sequences of bytes (0..255).  C indexes    *)
(* are 0-based: At(inp, i) is the byte inp[i] of the C string, whose       *)
(* terminating NUL is the byte at index Len(inp).  A slice_t is a record   *)
(* [p, l]: p is the offset of its first byte from the start of the input.  *)
(* The recursive descent of value/members/values/member is unfolded into   *)
(* an explicit stack of frames; every action runs one function body from   *)
(* its entry, or from the return of its callee, to its next call or to its *)
(* return.                                                                 *)
(***************************************************************************)
EXTENDS Integers, Sequences, FiniteSets, TLC

----------------------------------------------------------------------------
\* Bytes and character constants.

\* The printable ASCII characters 0x20..0x5F and 0x61..0x7E (a TLA+ string
\* cannot hold the back-tick 0x60).
PrintableLo == " !\"#$%&'()*+,-./0123456789:;<=>?@ABCDEFGHIJKLMNOPQRSTUVWXYZ[\\]^_"
PrintableHi == "abcdefghijklmnopqrstuvwxyz{|}~"

\* The byte value of a one-character string.
Ch(c) ==
    IF c = "\t" THEN 9
    ELSE IF c = "\n" THEN 10
    ELSE IF c = "\r" THEN 13
    ELSE IF \E i \in 1..64 : SubSeq(PrintableLo, i, i) = c
    THEN 31 + (CHOOSE i \in 1..64 : SubSeq(PrintableLo, i, i) = c)
    ELSE 96 + (CHOOSE i \in 1..30 : SubSeq(PrintableHi, i, i) = c)

\* The bytes of an ASCII string.
Bytes(s) == [i \in 1..Len(s) |-> Ch(SubSeq(s, i, i))]

TAB == Ch("\t")
LF == Ch("\n")
CR == Ch("\r")
SP == Ch(" ")
DQUOTE == Ch("\"")
SQUOTE == Ch("'")
HASH == Ch("#")
SLASH == Ch("/")
STAR == Ch("*")
BSLASH == Ch("\\")
BTICK == Ch("_") + 1
COMMA == Ch(",")
COLON == Ch(":")
LBRACE == Ch("{")
RBRACE == Ch("}")
LSQUARE == Ch("[")
RSQUARE == Ch("]")
LESS == Ch("<")
USCORE == Ch("_")
DOT == Ch(".")
PLUS == Ch("+")
MINUS == Ch("-")
LPAREN == Ch("(")
RPAREN == Ch(")")
ZERO == Ch("0")
UPPER_T == Ch("T")
UPPER_Z == Ch("Z")
LOWER_N == Ch("n")
LOWER_R == Ch("r")
LOWER_T == Ch("t")
LOWER_U == Ch("u")
UPPER_A == Ch("A")

\* inp[i] of the C string inp: the byte at 0-based index i, NUL at its end.
At(inp, i) == IF i = Len(inp) THEN 0 ELSE inp[i + 1]

\* The value of a byte read through a plain `char`: negative from 0x80 up
\* when the build's char is signed.
AsChar(sgn, b) == IF sgn /\ b >= 128 THEN b - 256 ELSE b

Slice(p, l) == [p |-> p, l |-> l]
NullSlice == [p |-> -1, l |-> 0]
Pos(b, s, l) == [b |-> b, s |-> s, l |-> l]

----------------------------------------------------------------------------
\* Error messages (qjson.c:107-225).  A message is identified by its text.

NoErr == "NULL"
ErrEndOfInput == "end of input"
ErrInvalidChar == "invalid character"
ErrTruncatedChar == "last utf8 char is truncated"
ErrSyntaxError == "syntax error"
ErrUnclosedDoubleQuoteString == "unclosed double quote string"
ErrUnclosedSingleQuoteString == "unclosed single quote string"
ErrUnclosedSlashStarComment == "unclosed /*...*/ comment"
ErrNewlineInDoubleQuoteString == "newline in double quoted string"
ErrNewlineInSingleQuoteString == "newline in single quoted string"
ErrExpectStringIdentifier == "expect string identifier"
ErrExpectColon == "expect a colon"
ErrMaxObjectArrayDepth == "too many object or array encapsulations"
ErrUnclosedObject == "unclosed object"
ErrUnclosedArray == "unclosed array"
ErrUnexpectedEndOfInput == "unexpected end of input"
ErrExpectIdentifierAfterComma == "expect identifier after comma"
ErrExpectValueAfterComma == "expect value after comma"
ErrInvalidEscapeSequence == "invalid escape squence"
ErrInvalidNumericExpression == "invalid numeric expression"
ErrInvalidBinaryNumber == "invalid binary number"
ErrInvalidHexadecimalNumber == "invalid hexadecimal number"
ErrInvalidOctalNumber == "invalid octal number"
ErrInvalidIntegerNumber == "invalid integer number"
ErrInvalidDecimalNumber == "invalid decimal number"
ErrNumberOverflow == "number overflow"
ErrUnopenedParenthesis == "missing open parenthesis"
ErrDivisionByZero == "division by zero"
ErrUnclosedParenthesis == "missing close parenthesis"
ErrOperandMustBeInteger == "operand must be integer"
ErrMarginMustBeWhitespaceOnly == "multiline margin must contain only whitespaces"
ErrUnclosedMultiline == "unclosed multiline"
ErrInvalidMarginChar == "invalid margin character"
ErrMissingNewlineSpecifier == "missing \\n or \\r\\n after multiline start"
\* The message ends with a back-tick, written here as an apostrophe (see MsgBytes).
ErrInvalidNewlineSpecifier == "expect \\n or \\r\\n after '"
ErrInvalidMultilineStart == "invalid multiline start line"
ErrUnexpectedCloseBrace == "unexpected }"
ErrUnexpectedCloseSquare == "unexpected ]"
ErrInvalidISODateTime == "invalid ISO date time"

----------------------------------------------------------------------------
\* Tokenizer.  The lexer part of engine_t is a record e with the fields
\*   in  : the input           sgn : whether char is signed in the build
\*   p   : text left to parse  pos : position of the text left to parse
\* A function that can fail returns [e, err, epos, ...]: the engine after
\* it, the message (NoErr for a NULL error_t*) and the error's position.

Ok(e) == [e |-> e, err |-> NoErr, epos |-> e.pos]
Fail(e, pos, msg) == [e |-> e, err |-> msg, epos |-> pos]

\* e->p.p[k]
PAt(e, k) == At(e.in, e.p.p + k)

whitespace(inp, p) ==
    IF p.l = 0 THEN 0
    ELSE IF At(inp, p.p) = SP \/ At(inp, p.p) = TAB THEN 1
    ELSE IF p.l > 1 /\ At(inp, p.p) = 194 /\ At(inp, p.p + 1) = 160 THEN 2
    ELSE 0

newline(inp, p) ==
    IF p.l = 0 THEN 0
    ELSE IF At(inp, p.p) = LF THEN 1
    ELSE IF p.l > 1 /\ At(inp, p.p) = CR /\ At(inp, p.p + 1) = LF THEN 2
    ELSE 0

\* A variant of popBytes that leaves the byte index where it is.
popBytesWithoutIndex(e, n) == [e EXCEPT !.p = Slice(e.p.p + n, e.p.l - n)]

popBytes(e, n) ==
    [e EXCEPT !.p = Slice(e.p.p + n, e.p.l - n), !.pos.b = e.pos.b + n]

\* A variant of popNewline that puts the start of the line one byte after
\* the newline.
popNewlineAhead(e) ==
    IF newline(e.in, e.p) = 0 THEN e
    ELSE [popBytes(e, newline(e.in, e.p)) EXCEPT
             !.pos.s = e.pos.b + newline(e.in, e.p) + 1, !.pos.l = e.pos.l + 1]

\* popNewline: the engine after it; it returned true iff newline(e.in, e.p) # 0.
popNewline(e) ==
    LET n == newline(e.in, e.p)
        e1 == popBytes(e, n)
    IN  IF n = 0 THEN e
        ELSE [e1 EXCEPT !.pos.s = e1.pos.b, !.pos.l = e1.pos.l + 1]

\* utf8Table[b]: rule * 16 + length; s0 = 0 is an invalid lead byte.
utf8Table(b) ==
    IF b = 9 THEN 1
    ELSE IF b < 32 THEN 0
    ELSE IF b < 128 THEN 1
    ELSE IF b < 194 THEN 0
    ELSE IF b < 224 THEN 18
    ELSE IF b = 224 THEN 35
    ELSE IF b < 237 THEN 19
    ELSE IF b = 237 THEN 51
    ELSE IF b < 240 THEN 19
    ELSE IF b = 240 THEN 68
    ELSE IF b < 244 THEN 20
    ELSE IF b = 244 THEN 84
    ELSE 0

utf8Range == <<0, 0, 128, 191, 160, 191, 128, 159, 144, 191, 128, 143, 0, 0, 0, 0>>

\* qcharX: [err, n]; the error position is e.pos.
qcharX(e, x) ==
    LET n == x % 16
        r == (x \div 16) * 2
        b2 == PAt(e, 1)
        bad(k) == PAt(e, k) < 128 \/ AsChar(e.sgn, PAt(e, k)) > 191
    IN  IF x = 0 THEN [err |-> ErrInvalidChar, n |-> 0]
        ELSE IF n > e.p.l THEN [err |-> ErrTruncatedChar, n |-> 0]
        ELSE IF b2 < utf8Range[r + 1] \/ b2 > utf8Range[r + 2]
            THEN [err |-> ErrInvalidChar, n |-> 0]
        ELSE IF n >= 3 /\ bad(2) THEN [err |-> ErrInvalidChar, n |-> 0]
        ELSE IF n = 4 /\ bad(3) THEN [err |-> ErrInvalidChar, n |-> 0]
        ELSE [err |-> NoErr, n |-> n]

qchar(e) ==
    IF e.p.l = 0 THEN [err |-> NoErr, n |-> 0]
    ELSE IF utf8Table(PAt(e, 0)) = 1 THEN [err |-> NoErr, n |-> 1]
    ELSE qcharX(e, utf8Table(PAt(e, 0)))

\* The iterations of the loops over long texts are evaluated LoopBlock at a
\* time.
LoopBlock == 32

\* At most k iterations of the loop of column from the slice p: the chars
\* counted, the slice left, and whether the loop has ended.
RECURSIVE columnLoop(_, _, _)
columnLoop(inp, p, k) ==
    IF p.l <= 0 THEN [cnt |-> 0, p |-> p, ended |-> TRUE]
    ELSE IF k = 0 THEN [cnt |-> 0, p |-> p, ended |-> FALSE]
    ELSE LET n == utf8Table(At(inp, p.p)) % 16
         IN  IF n = 0 \/ n > p.l THEN [cnt |-> 0, p |-> p, ended |-> TRUE]
             ELSE LET r == columnLoop(inp, Slice(p.p + n, p.l - n), k - 1)
                  IN  [r EXCEPT !.cnt = r.cnt + 1]

RECURSIVE column(_, _)
column(inp, p) ==
    LET r == columnLoop(inp, p, LoopBlock)
    IN  IF r.ended THEN r.cnt ELSE r.cnt + column(inp, r.p)

RECURSIVE skipRestOfLine(_)
skipRestOfLine(e) ==
    IF newline(e.in, e.p) # 0 THEN Ok(popNewline(e))
    ELSE IF e.p.l = 0 THEN Ok(e)
    ELSE LET c == qchar(e)
         IN  IF c.err # NoErr THEN Fail(e, e.pos, c.err)
             ELSE skipRestOfLine(popBytes(e, c.n))

\* A variant of skipLineComment that knows the comments of two slashes only.
skipLineCommentSlashes(e) ==
    LET rest(r) == [e |-> r.e, err |-> r.err, epos |-> r.epos, ok |-> r.err = NoErr]
    IN  IF e.p.l # 0 /\ PAt(e, 0) = SLASH /\ e.p.l >= 2 /\ PAt(e, 1) = SLASH
        THEN rest(skipRestOfLine(e))
        ELSE [e |-> e, err |-> NoErr, epos |-> e.pos, ok |-> FALSE]

\* skipLineComment, skipMultilineComment: [e, err, epos, ok].
skipLineComment(e) ==
    LET rest(r) == [e |-> r.e, err |-> r.err, epos |-> r.epos, ok |-> r.err = NoErr]
    IN  IF e.p.l # 0 /\ (PAt(e, 0) = HASH
                         \/ (PAt(e, 0) = SLASH /\ e.p.l >= 2 /\ PAt(e, 1) = SLASH))
        THEN rest(skipRestOfLine(e))
        ELSE [e |-> e, err |-> NoErr, epos |-> e.pos, ok |-> FALSE]

RECURSIVE skipMultilineCommentLoop(_, _)
skipMultilineCommentLoop(e, startPos) ==
    IF e.p.l = 0
    THEN [e |-> e, err |-> ErrUnclosedSlashStarComment, epos |-> startPos, ok |-> FALSE]
    ELSE IF PAt(e, 0) = STAR /\ e.p.l >= 2 /\ PAt(e, 1) = SLASH
    THEN [e |-> popBytes(e, 2), err |-> NoErr, epos |-> e.pos, ok |-> TRUE]
    ELSE IF newline(e.in, e.p) # 0
    THEN skipMultilineCommentLoop(popNewline(e), startPos)
    ELSE IF AsChar(e.sgn, PAt(e, 0)) < 32
    THEN skipMultilineCommentLoop(popBytes(e, 1), startPos)
    ELSE LET c == qchar(e)
         IN  IF c.err # NoErr
             THEN [e |-> e, err |-> c.err, epos |-> e.pos, ok |-> FALSE]
             ELSE skipMultilineCommentLoop(popBytes(e, c.n), startPos)

skipMultilineComment(e) ==
    IF e.p.l = 0 \/ PAt(e, 0) # SLASH \/ e.p.l < 2 \/ PAt(e, 1) # STAR
    THEN [e |-> e, err |-> NoErr, epos |-> e.pos, ok |-> FALSE]
    ELSE skipMultilineCommentLoop(popBytes(e, 2), e.pos)

RECURSIVE skipWhitespaces(_)
skipWhitespaces(e) ==
    LET n == whitespace(e.in, e.p)
    IN  IF n = 0 THEN e ELSE skipWhitespaces(popBytes(e, n))

\* The loop shared by doubleQuotedString and singleQuotedString, which
\* differ in the quote q and in their two messages: [e, err, epos, s].
RECURSIVE quotedLoop(_, _, _, _, _)
quotedLoop(e, startPos, q, errUnclosed, errNewline) ==
    IF e.p.l = 0
    THEN [e |-> e, err |-> errUnclosed, epos |-> startPos, s |-> NullSlice]
    ELSE IF PAt(e, 0) = BSLASH /\ e.p.l > 1 /\ PAt(e, 1) = q
    THEN quotedLoop(popBytes(e, 2), startPos, q, errUnclosed, errNewline)
    ELSE IF PAt(e, 0) = q
    THEN [e |-> popBytes(e, 1), err |-> NoErr, epos |-> e.pos,
          s |-> Slice(startPos.b, e.pos.b + 1 - startPos.b)]
    ELSE IF newline(e.in, e.p) # 0
    THEN [e |-> e, err |-> errNewline, epos |-> startPos, s |-> NullSlice]
    ELSE LET c == qchar(e)
         IN  IF c.err # NoErr
             THEN [e |-> e, err |-> c.err, epos |-> e.pos, s |-> NullSlice]
             ELSE quotedLoop(popBytes(e, c.n), startPos, q, errUnclosed, errNewline)

doubleQuotedString(e) ==
    IF e.p.l = 0 \/ PAt(e, 0) # DQUOTE
    THEN [e |-> e, err |-> NoErr, epos |-> e.pos, s |-> NullSlice]
    ELSE quotedLoop(popBytes(e, 1), e.pos, DQUOTE,
                    ErrUnclosedDoubleQuoteString, ErrNewlineInDoubleQuoteString)

singleQuotedString(e) ==
    IF e.p.l = 0 \/ PAt(e, 0) # SQUOTE
    THEN [e |-> e, err |-> NoErr, epos |-> e.pos, s |-> NullSlice]
    ELSE quotedLoop(popBytes(e, 1), e.pos, SQUOTE,
                    ErrUnclosedSingleQuoteString, ErrNewlineInSingleQuoteString)

isIntDigit(v) == v >= ZERO /\ v <= ZERO + 9

\* The number of decimal digits of the slice v from its offset k on.
RECURSIVE countDigits(_, _, _)
countDigits(inp, v, k) ==
    IF v.l > k /\ isIntDigit(At(inp, v.p + k)) THEN 1 + countDigits(inp, v, k + 1) ELSE 0

\* parseISODateTimeLiteral: 0 if v does not start with an ISO date time,
\* -1 if it starts with an invalid one, else its byte length.
parseISODateTimeLiteral(inp, v) ==
    LET c(k) == At(inp, v.p + k)
        d(k) == isIntDigit(c(k))
        \* the time offset, whose sign is at offset n
        offset(n) ==
            IF v.l - (n + 1) < 5 \/ c(n + 3) # COLON \/ ~d(n + 1) \/ ~d(n + 2)
               \/ ~d(n + 4) \/ ~d(n + 5)
            THEN -1 ELSE n + 6
        \* what follows the seconds and the optional fraction, at offset n
        tail(n) ==
            IF v.l = n THEN n
            ELSE IF c(n) = UPPER_Z THEN n + 1
            ELSE IF c(n) # PLUS /\ c(n) # MINUS THEN n
            ELSE offset(n)
        frac == countDigits(inp, v, 20)
    IN  IF v.l < 11 \/ c(10) # UPPER_T \/ c(4) # MINUS \/ c(7) # MINUS
           \/ ~d(0) \/ ~d(1) \/ ~d(2) \/ ~d(3) \/ ~d(5) \/ ~d(6) \/ ~d(8) \/ ~d(9)
        THEN 0
        ELSE IF v.l = 11 THEN 11
        ELSE IF v.l - 11 < 5 \/ c(13) # COLON \/ ~d(11) \/ ~d(12) \/ ~d(14) \/ ~d(15)
        THEN -1
        ELSE IF v.l = 16 THEN 16
        ELSE IF c(16) = UPPER_Z THEN 17
        ELSE IF c(16) # COLON THEN 16
        ELSE IF v.l - 16 < 3 \/ ~d(17) \/ ~d(18) THEN -1
        ELSE IF v.l = 19 THEN 19
        ELSE IF c(19) = UPPER_Z THEN 20
        ELSE IF c(19) # DOT /\ c(19) # PLUS /\ c(19) # MINUS THEN 19
        ELSE IF c(19) = DOT
        THEN (IF frac # 6 /\ frac # 3 THEN -1 ELSE tail(20 + frac))
        ELSE tail(19)

lenISODateTime(e) ==
    IF PAt(e, 0) = COLON /\ e.pos.b >= 13
    THEN LET n == parseISODateTimeLiteral(e.in, Slice(e.p.p - 13, e.p.l + 13))
         IN  IF n > 13 THEN n - 13 ELSE 0
    ELSE 0

\* A variant of stopByte where the number sign is an ordinary byte.
stopByteWithoutHash(b) ==
    b \in {LF, CR, COMMA, SLASH, COLON, LSQUARE, RSQUARE, LBRACE, RBRACE}

\* stopByte[b] # 0
stopByte(b) == b \in {LF, CR, HASH, COMMA, SLASH, COLON, LSQUARE, RSQUARE, LBRACE, RBRACE}

\* The loop of quotelessString: [e, err, epos, s].
RECURSIVE quotelessLoop(_, _, _, _)
quotelessLoop(e, startPos, endIdx, k) ==
    LET finish == [e |-> e, err |-> NoErr, epos |-> e.pos, more |-> FALSE,
                   s |-> IF startPos.b = endIdx THEN NullSlice
                         ELSE Slice(startPos.b, endIdx - startPos.b)]
        stops == stopByte(PAt(e, 0))
                 /\ \/ (PAt(e, 0) = SLASH /\ e.p.l > 1
                        /\ (PAt(e, 1) = SLASH \/ PAt(e, 1) = STAR))
                    \/ newline(e.in, e.p) # 0
                    \/ (PAt(e, 0) # CR /\ PAt(e, 0) # SLASH)
        \* at a stop byte, n = lenISODateTime(e)
        stop(n) == IF n = 0 THEN finish
                   ELSE quotelessLoop(popBytes(e, n), startPos, e.pos.b + n, k - 1)
        \* at another byte, c = qchar(e)
        char(c) == IF c.err # NoErr
                   THEN [e |-> e, err |-> c.err, epos |-> e.pos, more |-> FALSE, s |-> NullSlice]
                   ELSE quotelessLoop(popBytes(e, c.n), startPos, e.pos.b + c.n, k - 1)
    IN  IF e.p.l = 0 THEN finish
        ELSE IF k = 0
        THEN [e |-> e, more |-> TRUE, endIdx |-> endIdx]
        ELSE IF whitespace(e.in, e.p) # 0
        THEN quotelessLoop(skipWhitespaces(e), startPos, endIdx, k - 1)
        ELSE IF stops THEN stop(lenISODateTime(e))
        ELSE char(qchar(e))

\* The loop, LoopBlock iterations at a time.
RECURSIVE quotelessBlocks(_, _, _)
quotelessBlocks(e, startPos, endIdx) ==
    LET r == quotelessLoop(e, startPos, endIdx, LoopBlock)
    IN  IF r.more THEN quotelessBlocks(r.e, startPos, r.endIdx)
        ELSE [e |-> r.e, err |-> r.err, epos |-> r.epos, s |-> r.s]

quotelessString(e) == quotelessBlocks(e, e.pos, e.pos.b)

\* tkTagTable[b]
tkTagTable(b) ==
    IF b = COMMA THEN "tagComma"
    ELSE IF b = COLON THEN "tagColon"
    ELSE IF b = LSQUARE THEN "tagOpenSquare"
    ELSE IF b = RSQUARE THEN "tagCloseSquare"
    ELSE IF b = LBRACE THEN "tagOpenBrace"
    ELSE IF b = RBRACE THEN "tagCloseBrace"
    ELSE "tagUnknown"

\* delimiter: [e, tag].
delimiter(e) ==
    LET tag == tkTagTable(PAt(e, 0))
    IN  [e |-> IF tag # "tagUnknown" THEN popBytes(e, 1) ELSE e, tag |-> tag]

RECURSIVE skipSpaces(_)

\* skipSpaces after skipMultilineComment returned mc.
skipSpacesMultiline(mc) ==
    IF mc.err # NoErr THEN Fail(mc.e, mc.epos, mc.err)
    ELSE IF mc.ok THEN skipSpaces(mc.e)
    ELSE IF newline(mc.e.in, mc.e.p) # 0 THEN skipSpaces(popNewline(mc.e))
    ELSE Ok(mc.e)

\* skipSpaces after skipLineComment returned lc.
skipSpacesLine(lc) ==
    IF lc.err # NoErr THEN Fail(lc.e, lc.epos, lc.err)
    ELSE IF lc.ok THEN skipSpaces(lc.e)
    ELSE skipSpacesMultiline(skipMultilineComment(lc.e))

skipSpaces(e) ==
    IF e.p.l <= 0 THEN Ok(e) ELSE skipSpacesLine(skipLineComment(skipWhitespaces(e)))

RECURSIVE matchingMarginFrom(_, _, _, _, _)
matchingMarginFrom(inp, margin, line, n, i) ==
    IF i >= n THEN n
    ELSE IF At(inp, line.p + i) # At(inp, margin.p + i) THEN i
    ELSE matchingMarginFrom(inp, margin, line, n, i + 1)

matchingMarginLength(inp, margin, line) ==
    matchingMarginFrom(inp, margin, line, IF line.l < margin.l THEN line.l ELSE margin.l, 0)

newlineSpecifier(inp, p) ==
    IF At(inp, p.p) # BSLASH THEN 0
    ELSE IF p.l > 1 /\ At(inp, p.p + 1) = LOWER_N THEN 2
    ELSE IF p.l > 3 /\ At(inp, p.p + 1) = LOWER_R /\ At(inp, p.p + 2) = BSLASH
            /\ At(inp, p.p + 3) = LOWER_N THEN 4
    ELSE 0

RECURSIVE getMargin(_, _)
getMargin(inp, p) ==
    LET n == whitespace(inp, p)
    IN  IF p.l <= 0 \/ n = 0 THEN 0 ELSE n + getMargin(inp, Slice(p.p + n, p.l - n))

\* The loop of multilineString over the lines after the opening one.
RECURSIVE multilineLoop(_, _, _)
multilineLoop(e, margin, startPos) ==
    LET \* the margin of the line e1 starts, m of its bytes matching
        line(e1, m) ==
            IF m # margin.l
            THEN [e |-> e1, err |-> ErrInvalidMarginChar,
                  epos |-> Pos(e1.pos.b + m, e1.pos.s, e1.pos.l), s |-> NullSlice]
            ELSE multilineLoop(popBytes(e1, m), margin, startPos)
        \* after the back-tick, popped in e2
        tick(e2) ==
            IF e2.p.l = 0 \/ PAt(e2, 0) # BSLASH
            THEN [e |-> e2, err |-> NoErr, epos |-> e2.pos,
                  s |-> Slice(startPos.s, e2.pos.b - startPos.s)]
            ELSE multilineLoop(e2, margin, startPos)
        char(c) ==
            IF c.err # NoErr
            THEN [e |-> e, err |-> c.err, epos |-> e.pos, s |-> NullSlice]
            ELSE multilineLoop(popBytes(e, c.n), margin, startPos)
    IN  IF e.p.l <= 0
        THEN [e |-> e, err |-> ErrUnclosedMultiline, epos |-> startPos, s |-> NullSlice]
        ELSE IF newline(e.in, e.p) # 0
        THEN line(popNewline(e), matchingMarginLength(e.in, margin, popNewline(e).p))
        ELSE IF AsChar(e.sgn, PAt(e, 0)) < 32
        THEN multilineLoop(popBytes(e, 1), margin, startPos)
        ELSE IF PAt(e, 0) = BTICK THEN tick(popBytes(e, 1))
        ELSE char(qchar(e))

\* multilineString: [e, err, epos, s].  In its steps below, e is the
\* engine at the opening back-tick.
multilineFail(en, pos, msg) == [e |-> en, err |-> msg, epos |-> pos, s |-> NullSlice]

\* From the first line of the text, which starts e3.
multilineBody(e, e3) ==
    LET margin == Slice(e.pos.s, e.pos.b - e.pos.s)
        m == matchingMarginLength(e.in, margin, e3.p)
    IN  IF e3.p.l = 0 THEN multilineFail(e3, e.pos, ErrUnclosedMultiline)
        ELSE IF m # margin.l
        THEN multilineFail(e3, Pos(e3.pos.b + m, e3.pos.s, e3.pos.l), ErrInvalidMarginChar)
        ELSE multilineLoop(popBytes(e3, m), margin, e.pos)

\* No newline follows the newline specifier: lc is what skipLineComment
\* returned.
multilineComment(e, lc) ==
    IF lc.err # NoErr THEN multilineFail(lc.e, lc.epos, lc.err)
    ELSE IF ~lc.ok THEN multilineFail(lc.e, e.pos, ErrInvalidMultilineStart)
    ELSE multilineBody(e, lc.e)

\* After the newline specifier and the whitespace that follows it.
multilineAfterSpecifier(e, e2) ==
    IF newline(e2.in, e2.p) # 0 THEN multilineBody(e, popNewline(e2))
    ELSE multilineComment(e, skipLineComment(e2))

\* After the back-tick and the whitespace that follows it.
multilineSpecifier(e, e1) ==
    LET n == newlineSpecifier(e1.in, e1.p)
    IN  IF e1.p.l = 0 THEN multilineFail(e1, e.pos, ErrMissingNewlineSpecifier)
        ELSE IF n = 0 THEN multilineFail(e1, e.pos, ErrInvalidNewlineSpecifier)
        ELSE multilineAfterSpecifier(e, skipWhitespaces(popBytes(e1, n)))

multilineString(e) ==
    LET b == getMargin(e.in, Slice(e.pos.s, e.pos.b - e.pos.s)) + e.pos.s
    IN  IF e.p.l = 0 \/ PAt(e, 0) # BTICK
        THEN [e |-> e, err |-> NoErr, epos |-> e.pos, s |-> NullSlice]
        ELSE IF b # e.pos.b
        THEN multilineFail(e, Pos(b, e.pos.s, e.pos.l), ErrMarginMustBeWhitespaceOnly)
        ELSE multilineSpecifier(e, skipWhitespaces(popBytes(e, 1)))

\* token_t: tag, pos, val; err is the message val.p points to when the tag
\* is tagError (NoErr otherwise).
Token(tag, pos, val, err) == [tag |-> tag, pos |-> pos, val |-> val, err |-> err]
ErrorToken(pos, msg) == Token("tagError", pos, Slice(-1, Len(msg)), msg)

\* nextToken: [e, tk, failed]; failed is the assert(false) of its last line.
\* Its steps come first, the last one first: each takes what the function
\* it names returned, an error, a token or nothing, and then the next
\* function is tried.
TokenResult(en, t) == [e |-> en, tk |-> t, failed |-> FALSE]

nextTokenQuoteless(ql, tokenPos, tk) ==
    IF ql.err # NoErr THEN TokenResult(ql.e, ErrorToken(ql.epos, ql.err))
    ELSE IF ql.s.p # -1
    THEN TokenResult(ql.e, Token("tagQuotelessString", tokenPos, ql.s, NoErr))
    ELSE [e |-> ql.e, tk |-> tk, failed |-> TRUE]

nextTokenMultiline(ml, tokenPos, tk) ==
    IF ml.err # NoErr THEN TokenResult(ml.e, ErrorToken(ml.epos, ml.err))
    ELSE IF ml.s.p # -1
    THEN TokenResult(ml.e, Token("tagMultilineString", tokenPos, ml.s, NoErr))
    ELSE nextTokenQuoteless(quotelessString(ml.e), tokenPos, tk)

nextTokenSingleQuoted(sq, tokenPos, tk) ==
    IF sq.err # NoErr THEN TokenResult(sq.e, ErrorToken(sq.epos, sq.err))
    ELSE IF sq.s.p # -1
    THEN TokenResult(sq.e, Token("tagSingleQuotedString", tokenPos, sq.s, NoErr))
    ELSE nextTokenMultiline(multilineString(sq.e), tokenPos, tk)

nextTokenDoubleQuoted(dq, tokenPos, tk) ==
    IF dq.err # NoErr THEN TokenResult(dq.e, ErrorToken(dq.epos, dq.err))
    ELSE IF dq.s.p # -1
    THEN TokenResult(dq.e, Token("tagDoubleQuotedString", tokenPos, dq.s, NoErr))
    ELSE nextTokenSingleQuoted(singleQuotedString(dq.e), tokenPos, tk)

nextTokenDelimiter(dl, en, tk) ==
    IF dl.tag # "tagUnknown" THEN TokenResult(dl.e, Token(dl.tag, en.pos, NullSlice, NoErr))
    ELSE nextTokenDoubleQuoted(doubleQuotedString(en), en.pos, tk)

nextTokenSpaces(sp, tk) ==
    IF sp.err # NoErr THEN TokenResult(sp.e, ErrorToken(sp.epos, sp.err))
    ELSE IF sp.e.p.l = 0 THEN TokenResult(sp.e, ErrorToken(sp.e.pos, ErrEndOfInput))
    ELSE nextTokenDelimiter(delimiter(sp.e), sp.e, tk)

\* A variant of nextToken without the return on an error token.
nextTokenAlways(e, tk) == nextTokenSpaces(skipSpaces(e), tk)

nextToken(e, tk) ==
    IF tk.tag = "tagError" THEN TokenResult(e, tk) ELSE nextTokenSpaces(skipSpaces(e), tk)

----------------------------------------------------------------------------
\* Output: re-emission of the string tokens.  Each operator returns
\* [out, err, epos]: the bytes it appends to the output buffer, and the
\* error it sets with setErrorAndPos (NoErr if none).

isHexDigit(v) == isIntDigit(v) \/ (v >= 65 /\ v <= 70) \/ (v >= 97 /\ v <= 102)

\* The test of an escape sequence at str.p[i] = '\\' in a quoted string
\* whose quote is q: TRUE iff the sequence is accepted.
validEscape(inp, str, i, q) ==
    LET c == At(inp, str.p + i + 1)
        h(k) == isHexDigit(At(inp, str.p + i + k))
    IN  \/ c \in {LOWER_T, LOWER_N, LOWER_R, Ch("f"), Ch("b"), SLASH, BSLASH, q}
        \/ (c = LOWER_U /\ str.l >= i + 6 /\ h(2) /\ h(3) /\ h(5) /\ h(5))

RECURSIVE outputDoubleQuotedLoop(_, _, _, _)
outputDoubleQuotedLoop(inp, tk, i, out) ==
    LET str == tk.val
        c == At(inp, str.p + i)
    IN  IF i >= str.l - 1 THEN [out |-> out \o <<DQUOTE>>, err |-> NoErr, epos |-> tk.pos]
        ELSE IF c = SLASH
        THEN outputDoubleQuotedLoop(inp, tk, i + 1,
                 IF At(inp, str.p + i - 1) = LESS THEN out \o <<BSLASH, c>> ELSE out \o <<c>>)
        ELSE IF c = TAB
        THEN outputDoubleQuotedLoop(inp, tk, i + 1, out \o <<BSLASH, LOWER_T>>)
        ELSE IF c = BSLASH /\ ~validEscape(inp, str, i, DQUOTE)
        THEN [out |-> out, err |-> ErrInvalidEscapeSequence,
              epos |-> Pos(tk.pos.b + i, tk.pos.s, tk.pos.l)]
        ELSE outputDoubleQuotedLoop(inp, tk, i + 1, out \o <<c>>)

outputDoubleQuotedString(inp, tk) == outputDoubleQuotedLoop(inp, tk, 1, <<DQUOTE>>)

RECURSIVE outputSingleQuotedLoop(_, _, _, _)
outputSingleQuotedLoop(inp, tk, i, out) ==
    LET str == tk.val
        c == At(inp, str.p + i)
    IN  IF i >= str.l - 1 THEN [out |-> out \o <<DQUOTE>>, err |-> NoErr, epos |-> tk.pos]
        ELSE IF c = SLASH
        THEN outputSingleQuotedLoop(inp, tk, i + 1,
                 IF At(inp, str.p + i - 1) = LESS THEN out \o <<BSLASH, c>> ELSE out \o <<c>>)
        ELSE IF c = TAB
        THEN outputSingleQuotedLoop(inp, tk, i + 1, out \o <<BSLASH, LOWER_T>>)
        ELSE IF c = BSLASH /\ ~validEscape(inp, str, i, SQUOTE)
        THEN [out |-> out, err |-> ErrInvalidEscapeSequence,
              epos |-> Pos(tk.pos.b + i, tk.pos.s, tk.pos.l)]
        ELSE IF c = BSLASH /\ At(inp, str.p + i + 1) = SQUOTE
        THEN outputSingleQuotedLoop(inp, tk, i + 1, out)
        ELSE IF c = DQUOTE
        THEN outputSingleQuotedLoop(inp, tk, i + 1, out \o <<BSLASH, c>>)
        ELSE outputSingleQuotedLoop(inp, tk, i + 1, out \o <<c>>)

outputSingleQuotedString(inp, tk) == outputSingleQuotedLoop(inp, tk, 1, <<DQUOTE>>)

RECURSIVE outputQuotelessLoop(_, _, _, _)
outputQuotelessLoop(inp, str, i, out) ==
    LET c == At(inp, str.p + i)
    IN  IF i >= str.l THEN out \o <<DQUOTE>>
        ELSE IF c = DQUOTE THEN outputQuotelessLoop(inp, str, i + 1, out \o <<BSLASH, c>>)
        ELSE IF c = TAB THEN outputQuotelessLoop(inp, str, i + 1, out \o <<BSLASH, LOWER_T>>)
        ELSE IF c = SLASH /\ i > 0 /\ At(inp, str.p + i - 1) = LESS
        THEN outputQuotelessLoop(inp, str, i + 1, out \o <<BSLASH, c>>)
        ELSE IF c = BSLASH THEN outputQuotelessLoop(inp, str, i + 1, out \o <<BSLASH, c>>)
        ELSE outputQuotelessLoop(inp, str, i + 1, out \o <<c>>)

\* outputQuotelessString never fails: the bytes it appends.
outputQuotelessString(inp, tk) == outputQuotelessLoop(inp, tk.val, 0, <<DQUOTE>>)

\* The upper-case hexadecimal digit of d in 0..15.
HexDigit(d) == IF d < 10 THEN ZERO + d ELSE UPPER_A + (d - 10)

\* sprintf(tmp, "\\u00%0X", c) for the char c read from byte b: %0X pads
\* nothing, and a negative char is printed as the 32-bit unsigned value.
sprintfU00(sgn, b) ==
    <<BSLASH, LOWER_U, ZERO, ZERO>> \o
    (IF AsChar(sgn, b) < 0
     THEN <<70, 70, 70, 70, 70, 70, HexDigit(b \div 16), HexDigit(b % 16)>>
     ELSE IF b < 16 THEN <<HexDigit(b)>>
     ELSE <<HexDigit(b \div 16), HexDigit(b % 16)>>)

\* The index of the first byte of str at or after k that equals c.
RECURSIVE indexOf(_, _, _, _)
indexOf(inp, str, k, c) ==
    IF At(inp, str.p + k) = c THEN k ELSE indexOf(inp, str, k + 1, c)

\* The body loop of outputMultilineString; nl is the newline specifier.
RECURSIVE outputMultilineLoop(_, _, _, _, _, _)
outputMultilineLoop(inp, sgn, str, marginLen, nl, out) ==
    LET c == At(inp, str.p)
        n == newline(inp, str)
        adv(k) == Slice(str.p + k, str.l - k)
        next(k, bytes) == outputMultilineLoop(inp, sgn, adv(k), marginLen, nl, out \o bytes)
    IN  IF str.l <= 0 THEN out \o <<DQUOTE>>
        ELSE IF n # 0 THEN next(n + marginLen, nl)
        ELSE IF AsChar(sgn, c) < 32
        THEN next(1, IF c = 8 THEN <<BSLASH, Ch("b")>>
                     ELSE IF c = TAB THEN <<BSLASH, LOWER_T>>
                     ELSE IF c = CR THEN <<BSLASH, LOWER_R>>
                     ELSE IF c = 12 THEN <<BSLASH, Ch("f")>>
                     ELSE sprintfU00(sgn, c))
        ELSE IF c = LESS
        THEN next(1, IF str.l > 1 /\ At(inp, str.p + 1) = SLASH
                     THEN <<LESS, BSLASH>> ELSE <<LESS>>)
        ELSE IF c = DQUOTE THEN next(1, <<BSLASH, DQUOTE>>)
        ELSE IF c = BTICK /\ str.l > 1 /\ At(inp, str.p + 1) = BSLASH THEN next(2, <<BTICK>>)
        ELSE IF c = BSLASH THEN next(1, <<BSLASH, BSLASH>>)
        ELSE next(1, <<c>>)

\* outputMultilineString never fails: the bytes it appends.  p is the
\* length of the margin.
\* From s3, the text after the newline specifier nl.
outputMultilineBody(inp, sgn, p, nl, s3) ==
    LET k == indexOf(inp, s3, 0, LF)
    IN  outputMultilineLoop(inp, sgn, Slice(s3.p + k + 1 + p, s3.l - k - 2 - p), p, nl,
                            <<DQUOTE>>)

\* From s2, the text after the backslash of the newline specifier.
outputMultilineSpecifier(inp, sgn, p, s2) ==
    IF At(inp, s2.p) = LOWER_N
    THEN outputMultilineBody(inp, sgn, p, <<BSLASH, LOWER_N>>, Slice(s2.p + 1, s2.l - 1))
    ELSE outputMultilineBody(inp, sgn, p, <<BSLASH, LOWER_R, BSLASH, LOWER_N>>,
                             Slice(s2.p + 3, s2.l - 3))

outputMultilineString(inp, sgn, tk) ==
    LET str == tk.val
        p == indexOf(inp, str, 0, BTICK)
        s1 == Slice(str.p + p + 1, str.l - p - 1)
        ws == getMargin(inp, s1)
    IN  outputMultilineSpecifier(inp, sgn, p, Slice(s1.p + ws + 1, s1.l - ws - 1))

----------------------------------------------------------------------------
\* NumTokenizer.  A numToken_t is [tag, pos, i, f, e]: i is the int64_t of
\* an IntegerVal, f the double of a DecimalVal, e the message of an Error.
\* A double is modelled by the exact rational [n, d] it stands for (d > 0,
\* lowest terms); integers are not wrapped to 64 bits, the model's inputs
\* keep them small.  A numEngine_t is [p, pos, tk].

RECURSIVE GCD(_, _)
GCD(a, b) == IF b = 0 THEN a ELSE GCD(b, a % b)

Abs(x) == IF x < 0 THEN -x ELSE x

\* The rational n/d in lowest terms with a positive denominator.
Rat(n, d) ==
    LET g == GCD(Abs(n), Abs(d))
        sg == IF d < 0 THEN -1 ELSE 1
    IN  [n |-> sg * (n \div g), d |-> sg * (d \div g)]

NumTok(tag, pos, i, f, e) == [tag |-> tag, pos |-> pos, i |-> i, f |-> f, e |-> e]
NumError(pos, msg) == NumTok("tagError", pos, 0, Rat(0, 1), msg)
NumInt(pos, i) == NumTok("tagIntegerVal", pos, i, Rat(0, 1), NoErr)
NumDec(pos, f) == NumTok("tagDecimalVal", pos, 0, f, NoErr)

numPopBytes(ne, n) == [ne EXCEPT !.p = Slice(ne.p.p + n, ne.p.l - n), !.pos = ne.pos + n]

\* tkOpTable[b]
tkOpTable(b) ==
    IF b = Ch("%") THEN "tagModulo"
    ELSE IF b = Ch("&") THEN "tagAnd"
    ELSE IF b = LPAREN THEN "tagOpenParen"
    ELSE IF b = RPAREN THEN "tagCloseParen"
    ELSE IF b = STAR THEN "tagMultiplication"
    ELSE IF b = PLUS THEN "tagPlus"
    ELSE IF b = MINUS THEN "tagMinus"
    ELSE IF b = SLASH THEN "tagDivision"
    ELSE IF b = Ch("^") THEN "tagXor"
    ELSE IF b = Ch("d") THEN "tagDays"
    ELSE IF b = Ch("h") THEN "tagHours"
    ELSE IF b = Ch("m") THEN "tagMinutes"
    ELSE IF b = Ch("s") THEN "tagSeconds"
    ELSE IF b = Ch("w") THEN "tagWeeks"
    ELSE IF b = Ch("|") THEN "tagOr"
    ELSE IF b = Ch("~") THEN "tagInverse"
    ELSE "tagUnknown"

\* skipHeaderAndOptionalUnderscore: [n, v]; n = -1 when the end is reached.
skipHeaderAndOptionalUnderscore(inp, n, v) ==
    IF n >= v.l THEN [n |-> -1, v |-> NullSlice]
    ELSE IF At(inp, v.p + n) = USCORE
    THEN (IF v.l - n - 1 = 0 THEN [n |-> -1, v |-> NullSlice]
          ELSE [n |-> n + 1, v |-> Slice(v.p + n + 1, v.l - n - 1)])
    ELSE [n |-> n, v |-> Slice(v.p + n, v.l - n)]

\* isBinDigit, isOctDigit, isIntDigit, isHexDigit by the base of the digits.
isDigitOf(base, v) ==
    IF base = 2 THEN v = ZERO \/ v = ZERO + 1
    ELSE IF base = 8 THEN v >= ZERO /\ v <= ZERO + 7
    ELSE IF base = 10 THEN isIntDigit(v)
    ELSE isHexDigit(v)

\* The loop of parseBinDigits, parseOctDigits, parseIntDigits and
\* parseHexDigits, which differ in the digit test only, at index p.
RECURSIVE parseDigitsLoop(_, _, _, _)
parseDigitsLoop(base, inp, v, p) ==
    LET q == IF At(inp, v.p + p) = USCORE THEN p + 1 ELSE p
    IN  IF p >= v.l THEN v.l
        ELSE IF q = v.l THEN -1
        ELSE IF ~isDigitOf(base, At(inp, v.p + q))
        THEN (IF At(inp, v.p + q - 1) = USCORE THEN -1 ELSE q)
        ELSE parseDigitsLoop(base, inp, v, q + 1)

\* The number of bytes parsed, 0 if v starts with no digit, -1 if invalid.
parseDigits(base, inp, v) ==
    IF v.l = 0 \/ ~isDigitOf(base, At(inp, v.p)) THEN 0
    ELSE parseDigitsLoop(base, inp, v, 1)

parseIntDigits(inp, v) == parseDigits(10, inp, v)

\* v.p[1] & 0xDF == c, for an upper-case letter c
isLetter(inp, v, k, c) == At(inp, v.p + k) = c \/ At(inp, v.p + k) = c + 32

\* parseBinLiteral and parseHexLiteral, with the letter of their header.
parsePrefixedLiteral(base, letter, inp, v) ==
    LET h == skipHeaderAndOptionalUnderscore(inp, 2, v)
        p == parseDigits(base, inp, h.v)
    IN  IF v.l < 2 \/ At(inp, v.p) # ZERO \/ ~isLetter(inp, v, 1, letter) THEN 0
        ELSE IF h.n >= 0 /\ p > 0 THEN h.n + p
        ELSE -1

parseBinLiteral(inp, v) == parsePrefixedLiteral(2, Ch("B"), inp, v)
parseHexLiteral(inp, v) == parsePrefixedLiteral(16, Ch("X"), inp, v)

parseOctLiteral(inp, v) ==
    LET h2 == skipHeaderAndOptionalUnderscore(inp, 2, v)
        p2 == parseDigits(8, inp, h2.v)
        h1 == skipHeaderAndOptionalUnderscore(inp, 1, v)
        p1 == parseDigits(8, inp, h1.v)
    IN  IF v.l < 1 \/ At(inp, v.p) # ZERO THEN 0
        ELSE IF v.l >= 2 /\ isLetter(inp, v, 1, Ch("O"))
        THEN (IF h2.n >= 0 /\ p2 > 0 THEN h2.n + p2 ELSE -1)
        ELSE IF v.l < 2 \/ (At(inp, v.p + 1) # USCORE /\ ~isDigitOf(8, At(inp, v.p + 1)))
        THEN 0
        ELSE IF h1.n >= 0 /\ p1 > 0 THEN h1.n + p1
        ELSE -1

parseIntLiteral(inp, v) ==
    IF At(inp, v.p) >= ZERO + 1 /\ At(inp, v.p) <= ZERO + 9 THEN parseIntDigits(inp, v)
    ELSE IF At(inp, v.p) # ZERO THEN 0
    ELSE IF v.l > 1 /\ (At(inp, v.p + 1) = USCORE \/ isIntDigit(At(inp, v.p + 1))) THEN -1
    ELSE 1

\* The value of the digit byte c in a base up to 16.
digitValue(c) ==
    IF isIntDigit(c) THEN c - ZERO
    ELSE IF c >= 97 THEN c - 97 + 10
    ELSE c - 65 + 10

\* A uint64_t is four limbs of 16 bits, the lowest first.
Limb == 2 ^ 16
u64(l1, l2, l3, l4) == <<l1, l2, l3, l4>>

\* val * m + d in uint64_t, for m up to 16 and d below m.
u64MulAdd(val, m, d) ==
    LET a1 == val[1] * m + d
        a2 == val[2] * m + a1 \div Limb
        a3 == val[3] * m + a2 \div Limb
        a4 == val[4] * m + a3 \div Limb
    IN  u64(a1 % Limb, a2 % Limb, a3 % Limb, a4 % Limb)

\* (val & 0x8000000000000000) != 0 and (val & 0xF000000000000000) != 0
u64TopBit(val) == val[4] >= 2 ^ 15
u64TopNibble(val) == val[4] >= 2 ^ 12

\* val > 0x1999999999999999
u64AboveTenth(val) ==
    LET w == u64(39321, 39321, 39321, 6553)
        differ == {k \in 1..4 : val[k] # w[k]}
        top == CHOOSE k \in differ : \A j \in differ : j <= k
    IN  differ # {} /\ val[top] > w[top]

\* (int64_t)val for a val below 2^63.  The integers of the evaluator are
\* those of TLC, which hold the values below 2^31.
int64(val) == val[1] + Limb * (val[2] + Limb * (val[3] + Limb * val[4]))

\* (int)(int64_t)val: the low 32 bits, as a signed integer.
int32(val) == val[1] + Limb * (IF val[2] >= 2 ^ 15 THEN val[2] - Limb ELSE val[2])

\* The test that decodeBinLiteral, decodeOctLiteral, decodeIntLiteral and
\* decodeHexLiteral make before they add a digit to val.
decodeOverflows(base, val) ==
    IF base = 2 THEN u64TopBit(val)
    ELSE IF base = 10 THEN u64AboveTenth(val)
    ELSE u64TopNibble(val)

\* At most n iterations of the loop of the four functions from index k
\* on, val so far: the val and the index after them, whether the loop
\* ended with return -1, and whether iterations remain.
RECURSIVE decodeSteps(_, _, _, _, _, _)
decodeSteps(base, inp, v, k, val, n) ==
    IF k >= v.l THEN [overflow |-> FALSE, val |-> val, k |-> k, more |-> FALSE]
    ELSE IF n = 0 THEN [overflow |-> FALSE, val |-> val, k |-> k, more |-> TRUE]
    ELSE IF At(inp, v.p + k) = USCORE THEN decodeSteps(base, inp, v, k + 1, val, n - 1)
    ELSE IF decodeOverflows(base, val)
    THEN [overflow |-> TRUE, val |-> val, k |-> k, more |-> FALSE]
    ELSE decodeSteps(base, inp, v, k + 1,
                     u64MulAdd(val, base, digitValue(At(inp, v.p + k))), n - 1)

\* The loop from index k on: the val at its end, and whether it ended with
\* return -1.
RECURSIVE decodeLoop(_, _, _, _, _)
decodeLoop(base, inp, v, k, val) ==
    LET r == decodeSteps(base, inp, v, k, val, LoopBlock)
    IN  IF r.more THEN decodeLoop(base, inp, v, r.k, r.val)
        ELSE [overflow |-> r.overflow, val |-> r.val]

\* What the functions return after the loop returned r: -1 after a
\* return -1 and, but for decodeOctLiteral, for a val of 2^63 or more.
decodeChecked(r) == IF r.overflow \/ u64TopBit(r.val) THEN -1 ELSE int64(r.val)

decodeBinLiteral(inp, v) == decodeChecked(decodeLoop(2, inp, v, 2, u64(0, 0, 0, 0)))
decodeIntLiteral(inp, v) == decodeChecked(decodeLoop(10, inp, v, 0, u64(0, 0, 0, 0)))
decodeHexLiteral(inp, v) == decodeChecked(decodeLoop(16, inp, v, 2, u64(0, 0, 0, 0)))

\* decodeOctLiteral returns an int: the int64_t is converted to it.
decodeOctReturn(r) == IF r.overflow THEN -1 ELSE int32(r.val)
decodeOctLiteral(inp, v) ==
    decodeOctReturn(decodeLoop(8, inp, v, IF isLetter(inp, v, 1, Ch("O")) THEN 2 ELSE 1,
                               u64(0, 0, 0, 0)))

\* The value of the digits of v from index k on, val so far, in the
\* decimal literals and in the date-time literals.
RECURSIVE decodeDigits(_, _, _, _, _)
decodeDigits(base, inp, v, k, val) ==
    IF k >= v.l THEN val
    ELSE IF At(inp, v.p + k) = USCORE THEN decodeDigits(base, inp, v, k + 1, val)
    ELSE decodeDigits(base, inp, v, k + 1, val * base + digitValue(At(inp, v.p + k)))

parseExponent(inp, v) ==
    LET signed == v.l > 1 /\ (At(inp, v.p + 1) = PLUS \/ At(inp, v.p + 1) = MINUS)
        n == IF signed THEN 2 ELSE 1
        digits(p) == IF p > 0 THEN n + p ELSE -1
    IN  IF v.l = 0 \/ ~isLetter(inp, v, 0, Ch("E")) THEN 0
        ELSE IF v.l - n = 0 THEN -1
        ELSE digits(parseIntDigits(inp, Slice(v.p + n, v.l - n)))

\* parseDecLiteral; its steps come first.
\* The form .123[e[+/-]145]: v1 follows the dot and starts with p1 digits.
parseDecDot(inp, v1, p1) ==
    LET q == parseExponent(inp, Slice(v1.p + p1, v1.l - p1))
    IN  IF p1 < 0 THEN -1
        ELSE IF p1 = 0
        THEN (IF v1.l > 0 /\ (At(inp, v1.p) = USCORE \/ isLetter(inp, v1, 0, Ch("E")))
              THEN -1 ELSE 0)
        ELSE IF q < 0 THEN -1
        ELSE 1 + p1 + q

\* The form 123.456[e[+/-]789]: v3 follows the dot that follows the p
\* digits, and starts with q3 digits.
parseDecFraction(inp, p, v3, q3) ==
    LET v4 == IF q3 > 0 THEN Slice(v3.p + q3, v3.l - q3) ELSE v3
        p4 == parseExponent(inp, v4)
    IN  IF q3 < 0 THEN -1
        ELSE IF p4 < 0 THEN -1
        ELSE IF v4.l > p4 /\ At(inp, v4.p + p4) = USCORE THEN -1
        ELSE p + 1 + (IF q3 > 0 THEN q3 ELSE 0) + p4

\* The forms 123e[+/-]145 and 123.456[e[+/-]789]: v2 follows the p digits
\* and starts with an exponent of q2 bytes.
parseDecExponent(inp, p, v2, q2) ==
    IF q2 < 0 THEN -1
    ELSE IF q2 > 0 THEN p + q2
    ELSE IF v2.l = 0 THEN 0
    ELSE IF At(inp, v2.p) # DOT THEN 0
    ELSE parseDecFraction(inp, p, Slice(v2.p + 1, v2.l - 1),
                          parseIntDigits(inp, Slice(v2.p + 1, v2.l - 1)))

\* v starts with p digits.
parseDecDigits(inp, v, p) ==
    IF p < 0 THEN 0
    ELSE IF p = 0
    THEN (IF At(inp, v.p) # DOT \/ v.l < 2 THEN 0
          ELSE parseDecDot(inp, Slice(v.p + 1, v.l - 1),
                           parseIntDigits(inp, Slice(v.p + 1, v.l - 1))))
    ELSE parseDecExponent(inp, p, Slice(v.p + p, v.l - p),
                          parseExponent(inp, Slice(v.p + p, v.l - p)))

parseDecLiteral(inp, v) == parseDecDigits(inp, v, parseIntDigits(inp, v))

RECURSIVE Pow10(_)
Pow10(k) == IF k = 0 THEN 1 ELSE 10 * Pow10(k - 1)

\* strtod on the text of v: the value of its longest prefix of the form
\* digits[.digits][e[+-]digits]; it stops at the first '_'.
strtod(inp, v) ==
    LET c(k) == At(inp, v.p + k)
        \* ni digits, then nf digits after a dot, make the first m bytes
        hasDot(ni) == v.l > ni /\ c(ni) = DOT
        hasE(m) == v.l > m /\ isLetter(inp, v, m, Ch("E"))
        signed(m) == hasE(m) /\ v.l > m + 1 /\ (c(m + 1) = MINUS \/ c(m + 1) = PLUS)
        sg(m) == IF signed(m) /\ c(m + 1) = MINUS THEN -1 ELSE 1
        es(m) == IF signed(m) THEN m + 2 ELSE m + 1
        \* the mantissa mant / 10^nf and the exponent ex of ne digits
        value(mant, nf, ne, ex) ==
            IF ne = 0 THEN Rat(mant, Pow10(nf))
            ELSE IF ex >= 0 THEN Rat(mant * Pow10(ex), Pow10(nf))
            ELSE Rat(mant, Pow10(nf) * Pow10(-ex))
        exponent(mant, nf, m, ne) ==
            value(mant, nf, ne, sg(m) * decodeDigits(10, inp, Slice(v.p + es(m), ne), 0, 0))
        mantissa(ni, nf, m) ==
            exponent(decodeDigits(10, inp, Slice(v.p, ni), 0, 0) * Pow10(nf)
                     + decodeDigits(10, inp, Slice(v.p + ni + 1, nf), 0, 0),
                     nf, m, IF hasE(m) THEN countDigits(inp, v, es(m)) ELSE 0)
        fraction(ni, nf) == mantissa(ni, nf, ni + (IF hasDot(ni) THEN 1 + nf ELSE 0))
        integer(ni) == fraction(ni, IF hasDot(ni) THEN countDigits(inp, v, ni + 1) ELSE 0)
    IN  integer(countDigits(inp, v, 0))

\* decodeDecLiteral: the double of the literal's text, '_' included.
decodeDecLiteral(inp, v) == strtod(inp, v)

\* The number of days from 1970-01-01 to the first day of year y.
daysBeforeYear(y) ==
    LET leaps(k) == (k \div 4) - (k \div 100) + (k \div 400)
    IN  (y - 1970) * 365 + leaps(y - 1) - leaps(1969)

isLeapYear(y) == (y % 4 = 0 /\ y % 100 # 0) \/ y % 400 = 0

\* The number of days of year y before its month M (1..12).
daysBeforeMonth(y, M) ==
    <<0, 31, 59, 90, 120, 151, 181, 212, 243, 273, 304, 334>>[M]
    + (IF M > 2 /\ isLeapYear(y) THEN 1 ELSE 0)

\* timegm of the fields of dt; days, hours and seconds out of range carry.
timegm(dt) ==
    ((daysBeforeYear(dt.y) + daysBeforeMonth(dt.y, dt.M) + dt.d - 1) * 24 + dt.h) * 3600
    + dt.m * 60 + dt.s

\* makeTime: [ok, v]; ok is FALSE where makeTime returns -1.
makeTime(dt) ==
    LET t == Rat(timegm(dt) * dt.f.d + dt.f.n, dt.f.d)
        off == IF dt.ho < 0 THEN dt.mo * 60 - dt.ho * 3600
               ELSE -(dt.ho * 3600) - dt.mo * 60
    IN  IF dt.y < 1970 \/ dt.M < 1 \/ dt.M > 12 \/ dt.d < 1 \/ dt.d > 31
           \/ dt.h < 0 \/ dt.h > 24 \/ dt.m < 0 \/ dt.m > 59 \/ dt.s < 0 \/ dt.s > 60
           \/ dt.ho < -15 \/ dt.ho > 15 \/ dt.mo < 0 \/ dt.mo > 59
           \/ (dt.h = 24 /\ dt.m # 0 /\ dt.s # 0 /\ dt.f.n # 0)
        THEN [ok |-> FALSE, v |-> Rat(-1, 1)]
        ELSE [ok |-> TRUE, v |-> Rat(t.n + off * t.d, t.d)]

\* decodeISODateTimeLiteral on a literal parseISODateTimeLiteral accepted:
\* the fields sscanf reads, then makeTime.
decodeISODateTimeLiteral(inp, v) ==
    LET num(k, n) == decodeDigits(10, inp, Slice(v.p + k, n), 0, 0)
        hasTime == v.l >= 16
        hasSec == v.l >= 19 /\ At(inp, v.p + 16) = COLON
        hasFrac == hasSec /\ v.l > 19 /\ At(inp, v.p + 19) = DOT
        nf == IF hasFrac THEN countDigits(inp, v, 20) ELSE 0
        \* the offset's sign, when there is one
        o == IF hasFrac THEN 20 + nf ELSE 19
        hasOff == hasSec /\ v.l > o /\ (At(inp, v.p + o) = PLUS \/ At(inp, v.p + o) = MINUS)
        ho == IF ~hasOff THEN 0
              ELSE IF At(inp, v.p + o) = MINUS THEN -num(o + 1, 2) ELSE num(o + 1, 2)
    IN  makeTime([y |-> num(0, 4), M |-> num(5, 2), d |-> num(8, 2),
                  h |-> IF hasTime THEN num(11, 2) ELSE 0,
                  m |-> IF hasTime THEN num(14, 2) ELSE 0,
                  s |-> IF hasSec THEN num(17, 2) ELSE 0,
                  f |-> IF hasFrac THEN Rat(num(20, nf), Pow10(nf)) ELSE Rat(0, 1),
                  ho |-> ho,
                  mo |-> IF hasOff THEN num(o + 4, 2) ELSE 0])

\* numNextToken, with nextOperator, nextISODateTimeValue, nextBinValue,
\* nextHexValue, nextDecValue, nextOctValue and nextIntValue in its order.
RECURSIVE numSkipWhitespaces(_, _)
numSkipWhitespaces(inp, ne) ==
    LET n == whitespace(inp, ne.p)
    IN  IF ne.p.l <= 0 \/ n = 0 THEN ne ELSE numSkipWhitespaces(inp, numPopBytes(ne, n))

numTok(e, t, n) == [numPopBytes(e, n) EXCEPT !.tk = t]
numFail(e, msg) == [e EXCEPT !.tk = NumError(e.pos, msg)]
\* nextBinValue, nextOctValue, nextIntValue and nextHexValue after their
\* decode function returned val for the n bytes of the literal.
numLit(e, val, n) ==
    IF val < 0 THEN numFail(e, ErrNumberOverflow) ELSE numTok(e, NumInt(e.pos, val), n)

\* nextIntValue .. nextOperator, the last one first: each takes what its
\* parse function returned, n, and then the next function is tried.
nextIntValue(inp, e, n) ==
    IF n < 0 THEN numFail(e, ErrInvalidIntegerNumber)
    ELSE IF n > 0 THEN numLit(e, decodeIntLiteral(inp, Slice(e.p.p, n)), n)
    ELSE numFail(e, ErrInvalidNumericExpression)

nextOctValue(inp, e, n) ==
    IF n < 0 THEN numFail(e, ErrInvalidOctalNumber)
    ELSE IF n > 0 THEN numLit(e, decodeOctLiteral(inp, Slice(e.p.p, n)), n)
    ELSE nextIntValue(inp, e, parseIntLiteral(inp, e.p))

nextDecValue(inp, e, n) ==
    IF n < 0 THEN numFail(e, ErrInvalidDecimalNumber)
    ELSE IF n > 0 THEN numTok(e, NumDec(e.pos, decodeDecLiteral(inp, Slice(e.p.p, n))), n)
    ELSE nextOctValue(inp, e, parseOctLiteral(inp, e.p))

nextHexValue(inp, e, n) ==
    IF n < 0 THEN numFail(e, ErrInvalidHexadecimalNumber)
    ELSE IF n > 0 THEN numLit(e, decodeHexLiteral(inp, Slice(e.p.p, n)), n)
    ELSE nextDecValue(inp, e, parseDecLiteral(inp, e.p))

nextBinValue(inp, e, n) ==
    IF n < 0 THEN numFail(e, ErrInvalidBinaryNumber)
    ELSE IF n > 0 THEN numLit(e, decodeBinLiteral(inp, Slice(e.p.p, n)), n)
    ELSE nextHexValue(inp, e, parseHexLiteral(inp, e.p))

\* val is what decodeISODateTimeLiteral returned.
nextISODateTimeDecoded(e, n, val) ==
    IF ~val.ok \/ val.v.n < 0 THEN numFail(e, ErrInvalidISODateTime)
    ELSE numTok(e, NumDec(e.pos, val.v), n)

nextISODateTimeValue(inp, e, n) ==
    IF n < 0 THEN numFail(e, ErrInvalidISODateTime)
    ELSE IF n > 0
    THEN nextISODateTimeDecoded(e, n, decodeISODateTimeLiteral(inp, Slice(e.p.p, n)))
    ELSE nextBinValue(inp, e, parseBinLiteral(inp, e.p))

nextOperator(inp, e) ==
    LET op == tkOpTable(At(inp, e.p.p))
    IN  IF e.p.l = 0 THEN numFail(e, ErrEndOfInput)
        ELSE IF op # "tagUnknown" THEN numTok(e, NumTok(op, e.pos, 0, Rat(0, 1), NoErr), 1)
        ELSE nextISODateTimeValue(inp, e, parseISODateTimeLiteral(inp, e.p))

numNextToken(inp, ne) ==
    IF ne.tk.tag = "tagError" THEN ne
    ELSE nextOperator(inp, numSkipWhitespaces(inp, ne))

numEngineInit(inp, input) ==
    numNextToken(inp, [p |-> input, pos |-> 0, tk |-> NumTok("tagUnknown", 0, 0, Rat(0, 1), NoErr)])

----------------------------------------------------------------------------
\* Expression evaluation.  Every operator that advances the tokenizer
\* returns [e, t]: the numEngine_t after it and the numToken_t it returns.

\* precedenceTable[tag]
precedenceTable(tag) ==
    IF tag \in {"tagPlus", "tagMinus", "tagXor", "tagOr", "tagInverse"} THEN 1
    ELSE IF tag \in {"tagMultiplication", "tagDivision", "tagAnd", "tagModulo"} THEN 2
    ELSE IF tag \in {"tagWeeks", "tagDays", "tagHours", "tagMinutes", "tagSeconds"} THEN 4
    ELSE 0

highestPrecedence == 4

\* Arithmetic of doubles; [n |-> 0, d |-> -1] is the negative zero.
fIsNeg(x) == x.n < 0 \/ x.d < 0
fZero(neg) == [n |-> 0, d |-> IF neg THEN -1 ELSE 1]
fNeg(x) == IF x.n = 0 THEN fZero(~fIsNeg(x)) ELSE [n |-> -x.n, d |-> x.d]
fAdd(x, y) ==
    IF x.n = 0 /\ y.n = 0 THEN fZero(fIsNeg(x) /\ fIsNeg(y))
    ELSE Rat(x.n * Abs(y.d) + y.n * Abs(x.d), Abs(x.d) * Abs(y.d))
fMul(x, y) ==
    IF x.n = 0 \/ y.n = 0 THEN fZero(fIsNeg(x) # fIsNeg(y))
    ELSE Rat(x.n * y.n, x.d * y.d)
fDiv(x, y) ==
    IF x.n = 0 THEN fZero(fIsNeg(x) # fIsNeg(y))
    ELSE Rat(x.n * Abs(y.d), Abs(x.d) * y.n)

\* The / and % of C on integers: the quotient is truncated toward zero.
cDiv(a, b) == (IF (a < 0) # (b < 0) THEN -1 ELSE 1) * (Abs(a) \div Abs(b))
cMod(a, b) == a - b * cDiv(a, b)

\* & on two's complement integers; | and ^ follow from it.
RECURSIVE bitAnd(_, _)
bitAnd(a, b) ==
    IF a = 0 \/ b = 0 THEN 0
    ELSE IF a = -1 THEN b
    ELSE IF b = -1 THEN a
    ELSE (a % 2) * (b % 2) + 2 * bitAnd(a \div 2, b \div 2)
bitOr(a, b) == a + b - bitAnd(a, b)
bitXor(a, b) == a + b - 2 * bitAnd(a, b)

toDouble(t) == IF t.tag = "tagIntegerVal" THEN NumDec(t.pos, Rat(t.i, 1)) ELSE t

\* A variant of normalizeTypes that converts nothing.
normalizeTypesNone(v1, v2) == <<v1, v2>>

\* normalizeTypes: <<v1, v2>> after it.
normalizeTypes(v1, v2) ==
    IF v1.tag = "tagIntegerVal" /\ v2.tag = "tagDecimalVal" THEN <<toDouble(v1), v2>>
    ELSE IF v1.tag = "tagDecimalVal" /\ v2.tag = "tagIntegerVal" THEN <<v1, toDouble(v2)>>
    ELSE <<v1, v2>>

\* right.val.e = ErrInvalidNumericExpression if it is ErrEndOfInput
noEndOfInput(right) ==
    IF right.tag = "tagError" /\ right.e = ErrEndOfInput
    THEN [right EXCEPT !.e = ErrInvalidNumericExpression] ELSE right

\* A variant of durationOf with the durations of hours and minutes exchanged.
durationExchanged(tag) ==
    IF tag = "tagWeeks" THEN 3600 * 24 * 7
    ELSE IF tag = "tagDays" THEN 3600 * 24
    ELSE IF tag = "tagHours" THEN 60
    ELSE IF tag = "tagMinutes" THEN 3600
    ELSE 1

\* The duration a ledWeeks .. ledSeconds passes to ledDuration.
durationOf(tag) ==
    IF tag = "tagWeeks" THEN 3600 * 24 * 7
    ELSE IF tag = "tagDays" THEN 3600 * 24
    ELSE IF tag = "tagHours" THEN 3600
    ELSE IF tag = "tagMinutes" THEN 60
    ELSE 1

\* The result of ledPlus .. ledXor on operands that are values: tag is the
\* operator's, t its token.
applyBinary(tag, t, left, right) ==
    LET n == normalizeTypes(left, right)
        l == n[1]
        r == n[2]
        isInt == l.tag = "tagIntegerVal"
        err(msg) == NumError(t.pos, msg)
    IN  IF tag = "tagPlus"
        THEN (IF isInt THEN [l EXCEPT !.i = l.i + r.i] ELSE [l EXCEPT !.f = fAdd(l.f, r.f)])
        ELSE IF tag = "tagMinus"
        THEN (IF isInt THEN [l EXCEPT !.i = l.i - r.i] ELSE [l EXCEPT !.f = fAdd(l.f, fNeg(r.f))])
        ELSE IF tag = "tagMultiplication"
        THEN (IF isInt THEN [l EXCEPT !.i = l.i * r.i] ELSE [l EXCEPT !.f = fMul(l.f, r.f)])
        ELSE IF tag = "tagDivision"
        THEN (IF isInt
              THEN (IF r.i = 0 THEN err(ErrDivisionByZero) ELSE [l EXCEPT !.i = cDiv(l.i, r.i)])
              ELSE (IF r.f.n = 0 THEN err(ErrDivisionByZero) ELSE [l EXCEPT !.f = fDiv(l.f, r.f)]))
        ELSE IF r.tag = "tagDecimalVal" THEN err(ErrOperandMustBeInteger)
        ELSE IF tag = "tagModulo"
        THEN (IF r.i = 0 THEN err(ErrDivisionByZero) ELSE [l EXCEPT !.i = cMod(l.i, r.i)])
        ELSE IF tag = "tagAnd" THEN [l EXCEPT !.i = bitAnd(l.i, r.i)]
        ELSE IF tag = "tagOr" THEN [l EXCEPT !.i = bitOr(l.i, r.i)]
        ELSE [l EXCEPT !.i = bitXor(l.i, r.i)]

RECURSIVE expression(_, _, _), nud(_, _, _), led(_, _, _, _), ledLoop(_, _, _)

\* nudPlus, nudMinus, nudOpenParen and nudInverse after their call of
\* expression returned r.
nudOperand(inp, t, r) ==
    LET right == noEndOfInput(r.t)
    IN  IF right.tag = "tagError" THEN [e |-> r.e, t |-> right]
        ELSE IF t.tag = "tagPlus" THEN [e |-> r.e, t |-> right]
        ELSE IF t.tag = "tagMinus"
        THEN [e |-> r.e, t |-> IF right.tag = "tagIntegerVal"
                               THEN [right EXCEPT !.i = -right.i]
                               ELSE [right EXCEPT !.f = fNeg(right.f)]]
        ELSE IF t.tag = "tagOpenParen"
        THEN (IF r.e.tk.tag # "tagCloseParen"
              THEN [e |-> r.e, t |-> NumError(t.pos, ErrUnclosedParenthesis)]
              ELSE [e |-> numNextToken(inp, r.e), t |-> right])
        ELSE IF right.tag = "tagDecimalVal"
        THEN [e |-> r.e, t |-> NumError(t.pos, ErrOperandMustBeInteger)]
        ELSE [e |-> r.e, t |-> [right EXCEPT !.i = -right.i - 1]]

\* nud: nudTable[t.tag], with nudValue, nudPlus, nudMinus, nudOpenParen,
\* nudCloseParen and nudInverse.
nud(inp, e, t) ==
    IF t.tag \in {"tagIntegerVal", "tagDecimalVal"} THEN [e |-> e, t |-> t]
    ELSE IF t.tag = "tagCloseParen" THEN [e |-> e, t |-> NumError(t.pos, ErrUnopenedParenthesis)]
    ELSE IF t.tag \notin {"tagPlus", "tagMinus", "tagOpenParen", "tagInverse"}
    THEN [e |-> e, t |-> NumError(t.pos, ErrInvalidNumericExpression)]
    ELSE nudOperand(inp, t, expression(inp, e, IF t.tag = "tagOpenParen"
                                               THEN precedenceTable("tagOpenParen")
                                               ELSE highestPrecedence + 1))

\* ledPlus .. ledXor and ledDuration after their call of expression
\* returned r; scaled is the left operand of a duration unit in seconds.
ledOperand(t, left, scaled, r) ==
    IF precedenceTable(t.tag) = 4
    THEN (IF r.t.tag = "tagError"
          THEN [e |-> r.e, t |-> IF r.t.e = ErrEndOfInput THEN scaled ELSE r.t]
          ELSE [e |-> r.e, t |-> [scaled EXCEPT !.f = fAdd(scaled.f, toDouble(r.t).f)]])
    ELSE IF r.t.tag = "tagError" THEN [e |-> r.e, t |-> noEndOfInput(r.t)]
    ELSE [e |-> r.e, t |-> applyBinary(t.tag, t, left, r.t)]

\* led: ledTable[t.tag], with ledPlus .. ledXor and, for the duration
\* units, ledDuration.
led(inp, e, t, left) ==
    LET isUnit == precedenceTable(t.tag) = 4
        l == toDouble(left)
        scaled == [l EXCEPT !.f = fMul(l.f, Rat(durationOf(t.tag), 1))]
    IN  IF precedenceTable(t.tag) = 0 \/ t.tag = "tagInverse"
        THEN [e |-> e, t |-> NumError(t.pos, ErrInvalidNumericExpression)]
        ELSE IF isUnit /\ e.tk.tag = "tagCloseParen" THEN [e |-> e, t |-> scaled]
        ELSE ledOperand(t, left, scaled,
                        expression(inp, e, IF isUnit THEN precedenceTable(t.tag) - 1
                                           ELSE precedenceTable(t.tag)))

\* The while loop of expression; r.t is left and r.e the engine.
ledLoop(inp, r, rbp) ==
    IF r.t.tag # "tagError" /\ rbp < precedenceTable(r.e.tk.tag)
    THEN ledLoop(inp, led(inp, numNextToken(inp, r.e), r.e.tk, r.t), rbp)
    ELSE r

expression(inp, e, rbp) ==
    IF e.tk.tag = "tagError" THEN [e |-> e, t |-> e.tk]
    ELSE ledLoop(inp, nud(inp, numNextToken(inp, e), e.tk), rbp)

\* evalNumberExpression: the numToken_t it returns.
evalNumberExpression(inp, input) ==
    toDouble(expression(inp, numEngineInit(inp, input), 0).t)

RECURSIVE isNumberExprFrom(_, _, _)
isNumberExprFrom(inp, p, i) ==
    LET c == At(inp, p.p + i)
    IN  IF i >= p.l THEN FALSE
        ELSE IF c \in {PLUS, MINUS, SP, TAB, LPAREN} THEN isNumberExprFrom(inp, p, i + 1)
        ELSE isIntDigit(c) \/ (c = DOT /\ i + 1 < p.l /\ isIntDigit(At(inp, p.p + i + 1)))

isNumberExpr(inp, p) == isNumberExprFrom(inp, p, 0)

----------------------------------------------------------------------------
\* sprintf.

\* The decimal digits (0..9) of the natural number n, none for 0.
RECURSIVE digitsOf(_)
digitsOf(n) == IF n = 0 THEN <<>> ELSE digitsOf(n \div 10) \o <<n % 10>>

asciiDigits(ds) == [k \in 1..Len(ds) |-> ZERO + ds[k]]

\* sprintf "%d"
sprintfD(n) ==
    IF n = 0 THEN <<ZERO>>
    ELSE IF n < 0 THEN <<MINUS>> \o asciiDigits(digitsOf(-n))
    ELSE asciiDigits(digitsOf(n))

\* The first k digits of r/d (0 <= r < d) after the decimal point.
RECURSIVE fracDigits(_, _, _)
fracDigits(r, d, k) ==
    IF k = 0 THEN <<>>
    ELSE IF r = 0 THEN [j \in 1..k |-> 0]
    ELSE <<(r * 10) \div d>> \o fracDigits((r * 10) % d, d, k - 1)

\* The remainder left after the first k digits of r/d.
RECURSIVE fracRem(_, _, _)
fracRem(r, d, k) == IF k = 0 \/ r = 0 THEN r ELSE fracRem((r * 10) % d, d, k - 1)

\* The number of zeros between the decimal point and the first non-zero
\* digit of r/d (0 < r < d).
RECURSIVE leadingZeros(_, _)
leadingZeros(r, d) == IF r * 10 >= d THEN 0 ELSE 1 + leadingZeros(r * 10, d)

\* ds plus one in its last place; a carry out of the first digit adds one.
RECURSIVE incrDigits(_)
incrDigits(ds) ==
    IF ds = <<>> THEN <<1>>
    ELSE IF ds[Len(ds)] = 9 THEN incrDigits(SubSeq(ds, 1, Len(ds) - 1)) \o <<0>>
    ELSE [ds EXCEPT ![Len(ds)] = ds[Len(ds)] + 1]

RECURSIVE stripZeros(_)
stripZeros(ds) ==
    IF ds # <<>> /\ ds[Len(ds)] = 0 THEN stripZeros(SubSeq(ds, 1, Len(ds) - 1)) ELSE ds

\* sprintf "%.16g" of the double x: the digits of the rational that stands
\* for x, rounded to 16 significant digits, half to even.  They are the
\* digits C prints when that rational is a double (its denominator is a
\* power of two); the double nearest to another rational can print another
\* sixteenth digit.
sprintfG(x) ==
    LET sign == IF fIsNeg(x) THEN <<MINUS>> ELSE <<>>
        zeros(k) == [j \in 1..k |-> 0]
        exp2(X) == IF Abs(X) < 10 THEN <<ZERO>> \o sprintfD(Abs(X)) ELSE sprintfD(Abs(X))
        \* the significant digits ds, zeros stripped, and their exponent X
        format(ds, X) ==
            IF X < -4 \/ X >= 16
            THEN sign \o asciiDigits(<<ds[1]>>)
                 \o (IF Len(ds) > 1 THEN <<DOT>> \o asciiDigits(SubSeq(ds, 2, Len(ds))) ELSE <<>>)
                 \o <<Ch("e"), IF X < 0 THEN MINUS ELSE PLUS>> \o exp2(X)
            ELSE IF X < 0
            THEN sign \o <<ZERO, DOT>> \o asciiDigits(zeros(-X - 1) \o ds)
            ELSE IF Len(ds) <= X + 1
            THEN sign \o asciiDigits(ds \o zeros(X + 1 - Len(ds)))
            ELSE sign \o asciiDigits(SubSeq(ds, 1, X + 1)) \o <<DOT>>
                 \o asciiDigits(SubSeq(ds, X + 2, Len(ds)))
        \* r16: the 16 digits after rounding, 17 when the rounding carried
        rounded(r16, X) ==
            format(stripZeros(SubSeq(r16, 1, 16)), IF Len(r16) = 17 THEN X + 1 ELSE X)
        \* sig: 17 significant digits; sticky: digits other than 0 follow
        round(sig, sticky, X) ==
            rounded(IF sig[17] > 5 \/ (sig[17] = 5 /\ (sticky \/ sig[16] % 2 = 1))
                    THEN incrDigits(SubSeq(sig, 1, 16)) ELSE SubSeq(sig, 1, 16), X)
        significant(all, sticky, X) == round(SubSeq(all, Len(all) - 16, Len(all)), sticky, X)
        \* ip: the digits of the integer part; z: the zeros after the point
        \* when there is none; nfrac: the digits of the fraction it takes
        fraction(a, d, ip, z, nfrac) ==
            significant(ip \o fracDigits(a % d, d, nfrac), fracRem(a % d, d, nfrac) # 0,
                        IF ip # <<>> THEN Len(ip) - 1 ELSE -(z + 1))
        leading(a, d, ip, z) ==
            fraction(a, d, ip, z, IF ip # <<>> THEN 17 - Len(ip) ELSE z + 17)
        integer(a, d, ip) ==
            leading(a, d, ip, IF ip = <<>> THEN leadingZeros(a % d, d) ELSE 0)
    IN  IF x.n = 0 THEN sign \o <<ZERO>>
        ELSE integer(Abs(x.n), Abs(x.d), digitsOf(Abs(x.n) \div Abs(x.d)))

\* The bytes of the message msg.  ErrInvalidNewlineSpecifier ends with a
\* back-tick, written as an apostrophe in its definition above, and the
\* first space of ErrTruncatedChar is the no-break space U+00A0.
MsgBytes(msg) ==
    IF msg = ErrInvalidNewlineSpecifier
    THEN SubSeq(Bytes(msg), 1, Len(msg) - 1) \o <<BTICK>>
    ELSE IF msg = ErrTruncatedChar
    THEN Bytes("last utf8") \o <<194, 160>> \o Bytes("char is truncated")
    ELSE Bytes(msg)

----------------------------------------------------------------------------
\* Engine.

maxDepth == 200

\* A variant of isLiteralValue that knows the lowercase spellings only.
isLiteralValueLowercase(inp, p) ==
    LET word == [k \in 1..p.l |-> At(inp, p.p + k - 1)]
    IN  IF word \in {Bytes("true"), Bytes("yes"), Bytes("on")} THEN "true"
        ELSE IF word \in {Bytes("false"), Bytes("no"), Bytes("off")} THEN "false"
        ELSE IF word = Bytes("null") THEN "null"
        ELSE NoErr

\* isLiteralValue: the JSON literal p stands for, NoErr for NULL.  The
\* switch on p.l falls through from each case to the next.
isLiteralValue(inp, p) ==
    LET c(k) == At(inp, p.p + k)
        is(k, lo) == c(k) = Ch(lo)
        IS(k, lo) == c(k) = Ch(lo) - 32
        any(k, lo) == is(k, lo) \/ IS(k, lo)
    IN  IF p.l = 5 /\ any(0, "f")
           /\ ((is(1, "a") /\ is(2, "l") /\ is(3, "s") /\ is(4, "e"))
               \/ (IS(1, "a") /\ IS(2, "l") /\ IS(3, "s") /\ IS(4, "e")))
        THEN "false"
        ELSE IF p.l \in {4, 5} /\ any(0, "n")
           /\ ((is(1, "u") /\ is(2, "l") /\ is(3, "l")) \/ (IS(1, "u") /\ IS(2, "l") /\ IS(3, "l")))
        THEN "null"
        ELSE IF p.l \in {4, 5} /\ any(0, "t")
           /\ ((is(1, "r") /\ is(2, "u") /\ is(3, "e")) \/ (IS(1, "r") /\ IS(2, "u") /\ IS(3, "e")))
        THEN "true"
        ELSE IF p.l \in {3, 4, 5} /\ any(0, "y")
           /\ ((is(1, "e") /\ is(2, "s")) \/ (IS(1, "e") /\ IS(2, "s")))
        THEN "true"
        ELSE IF p.l \in {3, 4, 5} /\ any(0, "o")
           /\ ((is(1, "f") /\ is(2, "f")) \/ (IS(1, "f") /\ IS(2, "f")))
        THEN "false"
        ELSE IF p.l \in {2, 3, 4, 5} /\ any(0, "o") /\ any(1, "n") THEN "true"
        ELSE IF p.l \in {2, 3, 4, 5} /\ any(0, "n") /\ any(1, "o") THEN "false"
        ELSE NoErr

----------------------------------------------------------------------------
\* The state of a call of qjson_decode.

VARIABLES
    in,      \* qjsonText, without its terminating NUL
    sgn,     \* whether plain char is signed in the build
    p,       \* e.p: text left to parse
    pos,     \* e.pos: position of the text left to parse
    tk,      \* e.tk: current token
    depth,   \* e.depth: depth of [] and {}
    out,     \* e.out: the bytes in the output buffer
    stack,   \* the active calls of members, member, value and values
    ret,     \* the value the last call returned
    state,   \* "start", "running", "returned", or "aborted" by an assert;
             \* "classified" after a call of qchar alone, "lexed" after a
             \* call of nextToken alone
    result   \* the buffer qjson_decode returned, its NUL included

vars == <<in, sgn, p, pos, tk, depth, out, stack, ret, state, result>>

\* The engine_t in the current state; failed records a failed assert.
Engine ==
    [in |-> in, sgn |-> sgn, p |-> p, pos |-> pos, tk |-> tk, depth |-> depth,
     out |-> out, failed |-> FALSE]

done(E) == E.tk.tag = "tagError"
setErrorAndPos(E, err, at) == [E EXCEPT !.tk = ErrorToken(at, err)]
setError(E, err) == setErrorAndPos(E, err, E.pos)
outputByte(E, c) == [E EXCEPT !.out = E.out \o <<c>>]
outputString(E, bytes) == [E EXCEPT !.out = E.out \o bytes]

\* nextToken(e) on the engine E; r is what nextToken returned.
EngineAfter(E, r) ==
    [E EXCEPT !.p = r.e.p, !.pos = r.e.pos, !.tk = r.tk, !.failed = E.failed \/ r.failed]

NextTk(E) ==
    EngineAfter(E, nextToken([in |-> E.in, sgn |-> E.sgn, p |-> E.p, pos |-> E.pos], E.tk))

\* outputDoubleQuotedString(e) and outputSingleQuotedString(e) on E, from
\* the [out, err, epos] of the operators above.
outputQuoted(E, r) ==
    LET E1 == outputString(E, r.out)
    IN  IF r.err # NoErr THEN setErrorAndPos(E1, r.err, r.epos) ELSE E1

\* if (e->tk.val.p == ErrEndOfInput) setErrorAndPos(e, err, at)
replaceEndOfInput(E, err, at) ==
    IF E.tk.err = ErrEndOfInput THEN setErrorAndPos(E, err, at) ELSE E

Frame(fn, pc, notFirst, startPos) ==
    [fn |-> fn, pc |-> pc, notFirst |-> notFirst, startPos |-> startPos]
NewFrame(fn) == Frame(fn, "enter", FALSE, Pos(0, 0, 0))

Top == stack[Len(stack)]
Running(fn, pc) == state = "running" /\ stack # <<>> /\ Top.fn = fn /\ Top.pc = pc

\* The engine becomes E, the stack stk and the last returned value r.
Commit(E, stk, r) ==
    /\ p' = E.p
    /\ pos' = E.pos
    /\ tk' = E.tk
    /\ depth' = E.depth
    /\ out' = E.out
    /\ stack' = stk
    /\ ret' = r
    /\ state' = IF E.failed THEN "aborted" ELSE state
    /\ UNCHANGED <<in, sgn, result>>

\* The running function returns r.
Return(E, r) == Commit(E, SubSeq(stack, 1, Len(stack) - 1), r)

\* The running function, its frame updated to f, calls fn.
Call(E, f, fn) ==
    Commit(E, SubSeq(stack, 1, Len(stack) - 1) \o <<f, NewFrame(fn)>>, ret)

\* The running function goes on with its frame updated to f.
Goto(E, f) == Commit(E, SubSeq(stack, 1, Len(stack) - 1) \o <<f>>, ret)

----------------------------------------------------------------------------
\* members and values.  The two functions differ in their brackets, in the
\* message for a trailing comma and in the function they call.

openOf(fn) == IF fn = "members" THEN LBRACE ELSE LSQUARE
\* A variant of closeOf that closes every list with a brace.
closeWithBrace(fn) == RBRACE

closeOf(fn) == IF fn = "members" THEN RBRACE ELSE RSQUARE
closeTagOf(fn) == IF fn = "members" THEN "tagCloseBrace" ELSE "tagCloseSquare"
\* A variant of afterCommaOf with the two messages exchanged.
afterCommaExchanged(fn) ==
    IF fn = "members" THEN ErrExpectValueAfterComma ELSE ErrExpectIdentifierAfterComma

afterCommaOf(fn) ==
    IF fn = "members" THEN ErrExpectIdentifierAfterComma ELSE ErrExpectValueAfterComma
calleeOf(fn) == IF fn = "members" THEN "member" ELSE "value"

\* The end of members and values, after their loop.
ListExit(fn, E) ==
    LET E1 == outputByte(E, closeOf(fn))
    IN  Return(E1, done(E1))

\* members and values up to their loop.
ListEnter(fn) ==
    Goto(outputByte(Engine, openOf(fn)), [Top EXCEPT !.pc = "loop", !.notFirst = FALSE])

\* The loop body after the nextToken that follows a comma, up to its call.
ListAfterComma(fn, E2, called) ==
    IF done(E2) THEN ListExit(fn, replaceEndOfInput(E2, afterCommaOf(fn), E2.pos))
    ELSE IF E2.tk.tag = "tagCloseBrace" \/ E2.tk.tag = "tagCloseSquare"
    THEN ListExit(fn, setError(E2, afterCommaOf(fn)))
    ELSE Call(E2, called, calleeOf(fn))

\* A variant of ListSeparated that keeps the comma it has output only when
\* the input has one.
ListSeparatedVerbatim(fn, E1, called) ==
    IF E1.tk.tag # "tagComma"
    THEN Call([E1 EXCEPT !.out = SubSeq(E1.out, 1, Len(E1.out) - 1)], called, calleeOf(fn))
    ELSE ListAfterComma(fn, NextTk(E1), called)

\* The loop body after the outputByte of a comma, up to its call.
ListSeparated(fn, E1, called) ==
    IF E1.tk.tag # "tagComma" THEN Call(E1, called, calleeOf(fn))
    ELSE ListAfterComma(fn, NextTk(E1), called)

\* One test of the loop condition and the loop body up to its call.
ListLoop(fn) ==
    LET called == [Top EXCEPT !.pc = "called", !.notFirst = TRUE]
    IN  IF done(Engine) \/ tk.tag = closeTagOf(fn) THEN ListExit(fn, Engine)
        ELSE IF ~Top.notFirst THEN Call(Engine, called, calleeOf(fn))
        ELSE ListSeparated(fn, outputByte(Engine, COMMA), called)

\* The loop body after its call returned.
ListAfterCall(fn) ==
    IF ret THEN ListExit(fn, Engine) ELSE Goto(Engine, [Top EXCEPT !.pc = "loop"])

MembersEnter ==
    /\ Running("members", "enter")
    /\ ListEnter("members")

MembersLoop ==
    /\ Running("members", "loop")
    /\ ListLoop("members")

MembersAfterMember ==
    /\ Running("members", "called")
    /\ ListAfterCall("members")

ValuesEnter ==
    /\ Running("values", "enter")
    /\ ListEnter("values")

ValuesLoop ==
    /\ Running("values", "loop")
    /\ ListLoop("values")

ValuesAfterValue ==
    /\ Running("values", "called")
    /\ ListAfterCall("values")

----------------------------------------------------------------------------
\* member after the nextToken that follows the colon.
MemberAfterColon(E3) ==
    IF done(E3) THEN Return(replaceEndOfInput(E3, ErrUnexpectedEndOfInput, E3.pos), TRUE)
    ELSE Call(E3, [Top EXCEPT !.pc = "called"], "value")

\* member after the nextToken that follows the identifier.
MemberAfterIdentifier(E2) ==
    IF done(E2) THEN Return(replaceEndOfInput(E2, ErrUnexpectedEndOfInput, E2.pos), TRUE)
    ELSE IF E2.tk.tag # "tagColon" THEN Return(setError(E2, ErrExpectColon), TRUE)
    ELSE MemberAfterColon(NextTk(outputByte(E2, COLON)))

\* member: its body up to its return or to its call of value.
MemberBody ==
    /\ Running("member", "enter")
    /\ LET E == Engine
       IN  IF E.tk.tag = "tagCloseSquare"
           THEN Return(setError(E, ErrUnexpectedCloseSquare), FALSE)
           ELSE MemberAfterIdentifier(NextTk(
                    IF E.tk.tag = "tagDoubleQuotedString"
                    THEN outputQuoted(E, outputDoubleQuotedString(in, E.tk))
                    ELSE IF E.tk.tag = "tagSingleQuotedString"
                    THEN outputQuoted(E, outputSingleQuotedString(in, E.tk))
                    ELSE IF E.tk.tag = "tagQuotelessString"
                    THEN outputString(E, outputQuotelessString(in, E.tk))
                    ELSE setError(E, ErrExpectStringIdentifier)))

\* member returns what its call of value returned.
MemberReturn ==
    /\ Running("member", "called")
    /\ Return(Engine, ret)

\* The end of value: nextToken(e); return done(e).
ValueReturn(E1) == Return(E1, done(E1))
\* A variant of ValueExit without the nextToken.
ValueExitWithoutToken(E) == ValueReturn(E)

ValueExit(E) == ValueReturn(NextTk(E))

\* The tagQuotelessString case of value after evalNumberExpression
\* returned t.
ValueNumber(E, t) ==
    IF t.tag = "tagError"
    THEN Return(setErrorAndPos(E, t.e, Pos(E.tk.pos.b + t.pos, E.tk.pos.s, E.tk.pos.l)), TRUE)
    ELSE ValueExit(outputString(E, sprintfG(t.f)))

\* The tagQuotelessString case of value, up to its break or its return.
ValueQuoteless(E) ==
    IF isLiteralValue(in, E.tk.val) # NoErr
    THEN ValueExit(outputString(E, Bytes(isLiteralValue(in, E.tk.val))))
    ELSE IF ~isNumberExpr(in, E.tk.val)
    THEN ValueExit(outputString(E, outputQuotelessString(in, E.tk)))
    ELSE ValueNumber(E, evalNumberExpression(in, E.tk.val))

\* A variant of depthReached that lets one more container open.
depthExceeded(E) == E.depth > maxDepth

\* if (e->depth == maxDepth)
depthReached(E) == E.depth = maxDepth

\* The tagOpenBrace case of value after its nextToken, up to its call of
\* members; startPos is the position of the brace.
ValueOpenBrace(E1, startPos) ==
    IF done(E1) THEN Return(replaceEndOfInput(E1, ErrUnclosedObject, startPos), TRUE)
    ELSE IF depthReached(E1) THEN Return(setError(E1, ErrMaxObjectArrayDepth), TRUE)
    ELSE Call([E1 EXCEPT !.depth = E1.depth + 1],
              [Top EXCEPT !.pc = "afterMembers", !.startPos = startPos], "members")

\* The tagOpenSquare case of value after its nextToken, up to its call of
\* values.
ValueOpenSquare(E1) ==
    IF done(E1) THEN Return(replaceEndOfInput(E1, ErrUnclosedArray, E1.pos), TRUE)
    ELSE IF depthReached(E1) THEN Return(setError(E1, ErrMaxObjectArrayDepth), TRUE)
    ELSE Call([E1 EXCEPT !.depth = E1.depth + 1],
              [Top EXCEPT !.pc = "afterValues", !.startPos = E1.tk.pos], "values")

\* value: its body up to its return or to its call of members or values.
ValueBody ==
    /\ Running("value", "enter")
    /\ LET E == Engine
           tag == E.tk.tag
       IN  IF tag = "tagCloseSquare" THEN Return(setError(E, ErrUnexpectedCloseSquare), FALSE)
           ELSE IF tag = "tagCloseBrace"
           THEN Return(setError(E, ErrUnexpectedCloseBrace), FALSE)
           ELSE IF tag = "tagDoubleQuotedString"
           THEN ValueExit(outputQuoted(E, outputDoubleQuotedString(in, E.tk)))
           ELSE IF tag = "tagSingleQuotedString"
           THEN ValueExit(outputQuoted(E, outputSingleQuotedString(in, E.tk)))
           ELSE IF tag = "tagMultilineString"
           THEN ValueExit(outputString(E, outputMultilineString(in, sgn, E.tk)))
           ELSE IF tag = "tagQuotelessString" THEN ValueQuoteless(E)
           ELSE IF tag = "tagOpenBrace" THEN ValueOpenBrace(NextTk(E), E.tk.pos)
           ELSE IF tag = "tagOpenSquare" THEN ValueOpenSquare(NextTk(E))
           ELSE Return(setError(E, ErrSyntaxError), FALSE)

\* The tagOpenBrace and tagOpenSquare cases of value after members or
\* values returned; err is the message for an input that ended.
ValueAfterList(err) ==
    LET E == Engine
    IN  IF ret THEN Return(replaceEndOfInput(E, err, Top.startPos), TRUE)
        ELSE ValueExit([E EXCEPT !.depth = E.depth - 1])

ValueAfterMembers ==
    /\ Running("value", "afterMembers")
    /\ ValueAfterList(ErrUnclosedObject)

ValueAfterValues ==
    /\ Running("value", "afterValues")
    /\ ValueAfterList(ErrUnclosedArray)

----------------------------------------------------------------------------
\* qjson_decode.

\* A variant of emptyResult: the empty string.
emptyString == <<0>>

\* strcpy(malloc(3), "{}")
emptyResult == <<LBRACE, RBRACE, 0>>

\* qjson_decode after engineInit, whose nextToken returned E1, up to its
\* call of members.
DecodeMembers(E1) ==
    /\ p' = E1.p
    /\ pos' = E1.pos
    /\ tk' = E1.tk
    /\ depth' = E1.depth
    /\ out' = E1.out
    /\ stack' = <<NewFrame("members")>>
    /\ state' = IF E1.failed THEN "aborted" ELSE "running"
    /\ UNCHANGED <<in, sgn, ret, result>>

\* qjson_decode up to its call of members, or to its return of "{}".
Decode ==
    /\ state = "start"
    /\ IF Len(in) = 0
       THEN /\ result' = emptyResult
            /\ state' = "returned"
            /\ UNCHANGED <<in, sgn, p, pos, tk, depth, out, stack, ret>>
       ELSE DecodeMembers(NextTk([Engine EXCEPT
                                     !.p = Slice(0, Len(in)), !.pos = Pos(0, 0, 0),
                                     !.tk = Token("tagUnknown", Pos(0, 0, 0), NullSlice, NoErr),
                                     !.out = <<>>, !.depth = 0]))

\* " at line %d col %d" for the position at
sprintfLineCol(at) ==
    Bytes(" at line ") \o sprintfD(at.l + 1) \o Bytes(" col ")
    \o sprintfD(column(in, Slice(at.s, at.b - at.s)) + 1)

\* A variant of diagnostic without the outputReset.
diagnosticAppended(t, buf) == buf \o MsgBytes(t.err) \o sprintfLineCol(t.pos)

\* The output buffer after outputReset and the two outputString of the
\* error token t; buf is the buffer before them.
diagnostic(t, buf) == MsgBytes(t.err) \o sprintfLineCol(t.pos)

\* qjson_decode after members returned.
DecodeReturn ==
    /\ state = "running"
    /\ stack = <<>>
    /\ LET tk1 == IF tk.tag = "tagCloseBrace" THEN ErrorToken(tk.pos, ErrSyntaxError) ELSE tk
           str == IF tk1.err = ErrEndOfInput THEN out ELSE diagnostic(tk1, out)
       IN  /\ tk' = tk1
           /\ IF tk1.tag # "tagError"
              THEN state' = "aborted" /\ UNCHANGED <<out, result>>
              ELSE state' = "returned" /\ out' = str \o <<0>> /\ result' = str \o <<0>>
           /\ UNCHANGED <<in, sgn, p, pos, depth, stack, ret>>

Next ==
    \/ Decode
    \/ MembersEnter
    \/ MembersLoop
    \/ MembersAfterMember
    \/ MemberBody
    \/ MemberReturn
    \/ ValueBody
    \/ ValueAfterMembers
    \/ ValueAfterValues
    \/ ValuesEnter
    \/ ValuesLoop
    \/ ValuesAfterValue
    \/ DecodeReturn

\* The state before the call: the engine is not yet initialised.
InitWith(inputs) ==
    /\ in \in inputs
    /\ sgn \in (IF \E k \in 1..Len(in) : in[k] >= 128 THEN BOOLEAN ELSE {TRUE})
    /\ p = NullSlice
    /\ pos = Pos(0, 0, 0)
    /\ tk = Token("tagUnknown", Pos(0, 0, 0), NullSlice, NoErr)
    /\ depth = 0
    /\ out = <<>>
    /\ stack = <<>>
    /\ ret = FALSE
    /\ state = "start"
    /\ result = <<>>

----------------------------------------------------------------------------
\* Inputs.

\* The longest input drawn from Alphabet.
MaxLen == 4

\* The bytes the short inputs are made of.
Alphabet == {Ch("a"), COLON, ZERO + 1, COMMA, LSQUARE, RSQUARE, LBRACE, RBRACE}

\* Every input of at most MaxLen bytes of Alphabet, the empty one included.
ShortInputs == UNION {[1..n -> Alphabet] : n \in 0..MaxLen}

\* The scenarios of the specification and inputs that reach every function.
Scenarios ==
    {Bytes("name: \"Alice\""),
     Bytes("a: 0x10, b: 0b1010, c: 0o17, d: 1_000"),
     Bytes("ttl: 1h30m"),
     Bytes("x: '{'"),
     Bytes("{a:1"),
     Bytes("a:{b:[1,'c'],d:{}}\n# end\ne:no"),
     Bytes("msg: ") \o <<BTICK>> \o Bytes("\\n\n  line one\n  line two") \o <<BTICK>>,
     Bytes("  msg: ") \o <<BTICK>> \o Bytes("\\n\n  line one\n  line two") \o <<BTICK>>}

\* Strict JSON texts whose top-level value is an object, written without
\* whitespace: the JSON document of the same value is the text itself.
StrictJson ==
    {Bytes("{}"),
     Bytes("{\"a\":1}"),
     Bytes("{\"a\":true,\"b\":null}"),
     Bytes("{\"a\":\"x\\n\\u00e9\"}"),
     Bytes("{\"a\":{\"b\":[1,2]},\"c\":[]}")}

\* Object entries with the JSON member each stands for; bare is TRUE for
\* an entry that ends with a quoteless value, which a space does not end.
Entries ==
    {[src |-> Bytes("a:\"x\""), json |-> Bytes("\"a\":\"x\""), bare |-> FALSE],
     [src |-> Bytes("b:[1]"), json |-> Bytes("\"b\":[1]"), bare |-> FALSE],
     [src |-> Bytes("c:{d:2}"), json |-> Bytes("\"c\":{\"d\":2}"), bare |-> FALSE],
     [src |-> Bytes("e:1"), json |-> Bytes("\"e\":1"), bare |-> TRUE]}

\* What may stand between two entries: a comma, whitespace, or both.
Separators ==
    {<<COMMA>>, <<SP>>, <<LF>>, <<TAB>>, <<COMMA, SP>>, <<SP, COMMA, SP>>, <<COMMA, LF>>,
     <<LF, LF>>}

\* The separators that separate complete tokens after the entry e1.
SeparatorsAfter(e1) ==
    IF e1.bare THEN {s \in Separators : \E k \in 1..Len(s) : s[k] \in {COMMA, LF}}
    ELSE Separators

\* Two entries and what stands between them.
EntryPairs ==
    {e1.src \o s \o e2.src : <<e1, s, e2>> \in
        {t \in Entries \X Separators \X Entries : t[2] \in SeparatorsAfter(t[1])}}

\* Objects whose last entry is followed by a comma and then by `}` or by the
\* end of the input.
TrailingCommaObjects ==
    {Bytes("a:1,"), Bytes("a:1,}"), Bytes("a:\"x\" , "), Bytes("a:[1],\n"),
     Bytes("x:{a:1,}"), Bytes("x:{a:1,"), Bytes("x:{a:1 ,\n}")}

\* Arrays written with and without a comma after their last value, and the
\* JSON document of the latter.
TrailingCommaArrays ==
    {[with |-> Bytes("arr: [1, 2, 3,]"), without |-> Bytes("arr: [1, 2, 3]"),
      json |-> Bytes("{\"arr\":[1,2,3]}")],
     [with |-> Bytes("a:[1,]"), without |-> Bytes("a:[1]"), json |-> Bytes("{\"a\":[1]}")],
     [with |-> Bytes("a:[\"x\" ,\n]"), without |-> Bytes("a:[\"x\" \n]"),
      json |-> Bytes("{\"a\":[\"x\"]}")],
     [with |-> Bytes("a:[[1],]"), without |-> Bytes("a:[[1]]"),
      json |-> Bytes("{\"a\":[[1]]}")],
     [with |-> Bytes("a:[{b:1},]"), without |-> Bytes("a:[{b:1}]"),
      json |-> Bytes("{\"a\":[{\"b\":1}]}")]}

\* Inputs that end inside one nested container: what precedes its opening
\* delimiter, the delimiter, and what follows it.
UnclosedContainers ==
    {[pre |-> pre, open |-> LSQUARE, rest |-> rest] :
        pre \in {Bytes("a:"), Bytes("k:1\nab: ")},
        rest \in {<<>>, Bytes("1"), Bytes("1,2"), Bytes("\"x\"\n")}}
    \cup
    {[pre |-> pre, open |-> LBRACE, rest |-> rest] :
        pre \in {Bytes("a:"), Bytes("k:1\nab: ")},
        rest \in {<<>>, Bytes("b:1"), Bytes("b:1,c:2"), Bytes("b:\"x\"\n")}}

UnclosedInput(c) == c.pre \o <<c.open>> \o c.rest

Init ==
    InitWith(ShortInputs \cup Scenarios \cup StrictJson \cup EntryPairs
             \cup TrailingCommaObjects
             \cup {c.with : c \in TrailingCommaArrays}
             \cup {c.without : c \in TrailingCommaArrays}
             \cup {UnclosedInput(c) : c \in UnclosedContainers})

Spec == Init /\ [][Next]_vars

----------------------------------------------------------------------------
\* Inputs with literal values.

\* The quoteless values that stand for a JSON literal, with that literal.
Keywords ==
    {[word |-> Bytes("yes"), json |-> Bytes("true")],
     [word |-> Bytes("on"), json |-> Bytes("true")],
     [word |-> Bytes("true"), json |-> Bytes("true")],
     [word |-> Bytes("no"), json |-> Bytes("false")],
     [word |-> Bytes("off"), json |-> Bytes("false")],
     [word |-> Bytes("false"), json |-> Bytes("false")],
     [word |-> Bytes("null"), json |-> Bytes("null")]}

UpperCase(w) == [k \in 1..Len(w) |-> IF w[k] \in Ch("a")..Ch("z") THEN w[k] - 32 ELSE w[k]]
Capitalized(w) == <<UpperCase(w)[1]>> \o Tail(w)

\* The case variations of the word w.
Variations(w) == {w, UpperCase(w), Capitalized(w)}

\* The places of a value, with what precedes and follows it in the input
\* and in the output.
Places ==
    {[pre |-> Bytes("a:"), post |-> <<>>, jpre |-> Bytes("{\"a\":"), jpost |-> Bytes("}")],
     [pre |-> Bytes("a:[1,"), post |-> Bytes("]"),
      jpre |-> Bytes("{\"a\":[1,"), jpost |-> Bytes("]}")],
     [pre |-> Bytes("a:{b: "), post |-> Bytes(" }\n"),
      jpre |-> Bytes("{\"a\":{\"b\":"), jpost |-> Bytes("}}")]}

\* The longest token that isLiteralValue looks at.
MaxKeywordLen == 5

\* The bytes that follow a keyword in the longer tokens.
Suffixes == UNION {[1..n -> {Ch("s"), Ch("E"), ZERO + 1}] : n \in 1..(MaxKeywordLen - 2)}

\* The tokens of at most MaxKeywordLen bytes that start with a keyword in
\* lowercase or in uppercase, and are not a keyword.
LongerTokens ==
    {t \in {w \o x : <<w, x>> \in (UNION {{k.word, UpperCase(k.word)} : k \in Keywords}) \X Suffixes} :
        /\ Len(t) <= MaxKeywordLen
        /\ \A k \in Keywords : t \notin Variations(k.word)}

\* A token of six bytes that starts with a keyword, and tokens that start
\* with none.
OtherTokens == {Bytes("nulls1"), Bytes("onward"), Bytes("abc"), Bytes("tru"), Bytes("fals")}

LiteralInputs ==
    {pl.pre \o t \o pl.post :
        <<pl, t>> \in Places \X (UNION {Variations(k.word) : k \in Keywords}
                                  \cup LongerTokens \cup OtherTokens)}

InitLit == InitWith(LiteralInputs)

SpecLit == InitLit /\ [][Next]_vars

----------------------------------------------------------------------------
\* Inputs with numeric expressions.

\* The unit suffixes with their seconds.
Units ==
    {[ch |-> Ch("w"), sec |-> 604800], [ch |-> Ch("d"), sec |-> 86400],
     [ch |-> Ch("h"), sec |-> 3600], [ch |-> Ch("m"), sec |-> 60], [ch |-> Ch("s"), sec |-> 1]}

\* A quantity q with the unit u.
Term(q, u) == [src |-> sprintfD(q) \o <<u.ch>>, val |-> q * u.sec]

\* The chains of one and two terms with the quantities 0, 1, 2 and 30, and
\* the chains of three terms with the quantities 1 and 2.
DurationChains ==
    LET terms == {Term(q, u) : q \in {0, 1, 2, 30}, u \in Units}
        small == {Term(q, u) : q \in {1, 2}, u \in Units}
    IN  {[src |-> t.src, val |-> t.val] : t \in terms}
        \cup {[src |-> t[1].src \o t[2].src, val |-> t[1].val + t[2].val] : t \in terms \X terms}
        \cup {[src |-> t[1].src \o t[2].src \o t[3].src,
               val |-> t[1].val + t[2].val + t[3].val] : t \in small \X small \X small}

\* The binary operators with their precedence and their value on integers.
BinaryOperators ==
    {[ch |-> PLUS, tag |-> "tagPlus"], [ch |-> MINUS, tag |-> "tagMinus"],
     [ch |-> STAR, tag |-> "tagMultiplication"], [ch |-> SLASH, tag |-> "tagDivision"],
     [ch |-> Ch("%"), tag |-> "tagModulo"], [ch |-> Ch("&"), tag |-> "tagAnd"],
     [ch |-> Ch("|"), tag |-> "tagOr"], [ch |-> Ch("^"), tag |-> "tagXor"]}

ValueOf(op, x, y) ==
    IF op.tag = "tagPlus" THEN x + y
    ELSE IF op.tag = "tagMinus" THEN x - y
    ELSE IF op.tag = "tagMultiplication" THEN x * y
    ELSE IF op.tag = "tagDivision" THEN cDiv(x, y)
    ELSE IF op.tag = "tagModulo" THEN cMod(x, y)
    ELSE IF op.tag = "tagAnd" THEN bitAnd(x, y)
    ELSE IF op.tag = "tagOr" THEN bitOr(x, y)
    ELSE bitXor(x, y)

\* x op1 y op2 z with the value of its fully parenthesized form: the
\* operator of higher precedence first, the left one first when equal.
Grouped(x, op1, y, op2, z) ==
    [src |-> sprintfD(x) \o <<op1.ch>> \o sprintfD(y) \o <<op2.ch>> \o sprintfD(z),
     val |-> IF precedenceTable(op2.tag) > precedenceTable(op1.tag)
             THEN ValueOf(op1, x, ValueOf(op2, y, z))
             ELSE ValueOf(op2, ValueOf(op1, x, y), z)]

\* Expressions of three integers and two operators, and a unit-suffixed
\* operand to the right and to the left of + and of *.
PrecedenceCases ==
    {Grouped(7, op[1], 2, op[2], 3) : op \in BinaryOperators \X BinaryOperators}
    \cup {[src |-> Bytes("2*1h"), val |-> 7200], [src |-> Bytes("1h*2"), val |-> 7200],
          [src |-> Bytes("2+1h"), val |-> 3602], [src |-> Bytes("1h+2"), val |-> 3602]}

\* The operators that require integer operands.
IntegerOperators == {op \in BinaryOperators : op.tag \in {"tagAnd", "tagOr", "tagXor", "tagModulo"}}
Division == CHOOSE op \in BinaryOperators : op.tag = "tagDivision"

\* Expressions that apply & | ^ % to a decimal operand on the left, on the
\* right or on both sides, and ~ to a decimal operand.
DecimalOperandCases ==
    {l \o <<op.ch>> \o r :
        <<l, op, r>> \in {t \in {Bytes("6"), Bytes("1.5"), Bytes("2.0")} \X IntegerOperators
                                   \X {Bytes("3"), Bytes("0"), Bytes("2.5"), Bytes("0.0")} :
                             t[1] # Bytes("6") \/ t[3] \in {Bytes("2.5"), Bytes("0.0")}}}
    \cup {Bytes("0+~1.5"), Bytes("2*~1.0"), Bytes("1-~0.5")}

\* Divisions by an integer and by a decimal zero, and integer modulo by zero.
DivisionByZeroCases ==
    {l \o <<SLASH>> \o r : <<l, r>> \in {Bytes("0"), Bytes("7"), Bytes("1.5"), Bytes("0.0")}
                                           \X {Bytes("0"), Bytes("0.0")}}
    \cup {Bytes("7%0"), Bytes("0%0")}

\* The operators on integer operands, with their value.
IntegerOperandCases ==
    {[src |-> sprintfD(x) \o <<op.ch>> \o sprintfD(y), val |-> ValueOf(op, x, y)] :
        <<x, op, y>> \in {t \in {0, 1, 6, 7} \X (IntegerOperators \cup {Division}) \X {0, 2, 3, 7} :
                             t[3] # 0 \/ t[2].tag \notin {"tagDivision", "tagModulo"}}}
    \cup {[src |-> Bytes("0+~6"), val |-> -7], [src |-> Bytes("1*~0"), val |-> -1],
          [src |-> Bytes("0-7%2"), val |-> -1], [src |-> Bytes("0-7/2"), val |-> -3]}

\* The decimal digits, lowest first, of num * m + c for the decimal digits
\* num, lowest first.
RECURSIVE DecMulAdd(_, _, _)
DecMulAdd(num, m, c) ==
    IF num = <<>>
    THEN IF c = 0 THEN <<>> ELSE <<c % 10>> \o DecMulAdd(<<>>, m, c \div 10)
    ELSE <<(num[1] * m + c) % 10>> \o DecMulAdd(Tail(num), m, (num[1] * m + c) \div 10)

\* The mathematical value of the digits ds in the base, after num; the test
\* of its length has num evaluated at every digit.
RECURSIVE DecValue(_, _, _)
DecValue(base, ds, num) ==
    IF Len(num) >= 0 /\ ds = <<>> THEN num
    ELSE DecValue(base, Tail(ds), DecMulAdd(num, base, digitValue(ds[1])))

\* The value in decimal text, highest digit first.
DecText(num) ==
    IF num = <<>> THEN Bytes("0") ELSE [k \in 1..Len(num) |-> ZERO + num[Len(num) + 1 - k]]

\* 2^63 - 1 in decimal text.
MaxInt64Text == Bytes("9223372036854775807")

\* The decimal text is above 2^63 - 1.
AboveMaxInt64(text) ==
    \/ Len(text) > Len(MaxInt64Text)
    \/ /\ Len(text) = Len(MaxInt64Text)
       /\ \E k \in 1..Len(text) :
            /\ text[k] > MaxInt64Text[k]
            /\ \A j \in 1..(k - 1) : text[j] = MaxInt64Text[j]

\* An integer literal of the base with its header and its digits.
Literal(base, head, digits) ==
    [src |-> Bytes(head) \o Bytes(digits), text |-> DecText(DecValue(base, Bytes(digits), <<>>))]

\* Integer literals of the four bases around 2^31, 2^63 and 2^64.
IntegerLiterals ==
    {Literal(10, "", d) : d \in {"0", "7", "2147483647", "9223372036854775808",
                                 "18446744073709551615", "18446744073709551616",
                                 "18446744073709551619", "99999999999999999999"}}
    \cup {Literal(8, h, d) : h \in {"0o", "0"},
                             d \in {"17", "17777777777", "20000000000", "40000000000",
                                    "40000000001", "777777777777777777777",
                                    "1000000000000000000000"}}
    \cup {Literal(16, "0x", d) : d \in {"1f", "7FFFFFFF", "8000000000000000",
                                        "ffffffffffffffff", "10000000000000000"}}
    \cup {Literal(2, "0b", d) : d \in {"101", "1111111111111111111111111111111",
              "1000000000000000000000000000000000000000000000000000000000000000",
              "1111111111111111111111111111111111111111111111111111111111111111"}}

\* Numbers with digit separators, with their value, or -1 where a separator
\* does not stand between two digits or the number has no digit.
SeparatorCases ==
    {[src |-> Bytes("0"), val |-> 0], [src |-> Bytes("1_0"), val |-> 10],
     [src |-> Bytes("1_000_000"), val |-> 1000000], [src |-> Bytes("0b1_0"), val |-> 2],
     [src |-> Bytes("0x1_0"), val |-> 16], [src |-> Bytes("0o1_0"), val |-> 8],
     [src |-> Bytes("01_0"), val |-> 8], [src |-> Bytes("0_7"), val |-> 7]}
    \cup {[src |-> Bytes(x), val |-> -1] :
            x \in {"1_", "_1", "0b", "0x", "0o", "1__0", "1_0_", "0_", "0__7", "0b_1", "0b1_",
                   "0b1__0", "0x_1", "0x1_", "0x1__0", "0o_7", "0o7_", "0o1__0",
                   "1_.5", "1._5", "1.5_", "1e_5", "1e5_"}}

\* Expressions with parentheses: the balanced ones with their value, the
\* ones with an open parenthesis that is not closed, and the ones with a
\* close parenthesis that was not opened.
BalancedCases ==
    {[src |-> Bytes("(1)"), val |-> 1], [src |-> Bytes("(1+2)*3"), val |-> 9],
     [src |-> Bytes("2*(3+4)"), val |-> 14], [src |-> Bytes("((2))"), val |-> 2],
     [src |-> Bytes("7-(2-(3))"), val |-> 8], [src |-> Bytes("-(1)"), val |-> -1]}
UnclosedCases == {Bytes(x) : x \in {"(1", "((1)", "1+(2", "(1+2", "7-(2-(3)", "2*(3+4"}}
UnopenedCases ==
    {Bytes(x) : x \in {"1)", "1+)", "1+2)", "(1))", "1)+2", "(1+2))*3", "7-(2-3))", "2*)"}}

\* ISO date-time literals: the ones within the ranges with their seconds
\* since 1970, hour 24 with zero minute, second and fraction among them; the
\* ones with hour 24 and a non-zero minute, second or fraction; and the ones
\* with a component outside its range.
DateTimeCases ==
    {[src |-> Bytes("1970-01-01T" \o t), val |-> 86400] :
        t \in {"24:00", "24:00:00", "24:00:00.000", "24:00Z", "24:00:00Z"}}
    \cup {[src |-> Bytes("1970-01-01T00:00:60"), val |-> 60],
          [src |-> Bytes("1970-01-01T23:59:59"), val |-> 86399],
          [src |-> Bytes("1970-01-31T00:00"), val |-> 2592000],
          [src |-> Bytes("1970-12-31T00:00"), val |-> 31449600]}
HourTwentyFourCases ==
    {Bytes("1970-01-01T" \o t) :
        t \in {"24:30", "24:01:00", "24:00:01", "24:00:00.500", "24:30:15", "24:00:30.250",
               "24:30:00.250", "24:30:15.500", "24:59:59.999", "24:30Z"}}
OutOfRangeCases ==
    {Bytes(x) : x \in {"1970-13-01T00:00", "1970-00-01T00:00", "1970-01-00T00:00",
                       "1970-01-32T00:00", "1970-01-01T25:00", "1970-01-01T00:60",
                       "1970-01-01T00:00:61", "1970-01-01T99:00"}}

\* Slices that are one expression from the first byte to the last, blanks
\* between the operands and the operators among them, with their value; and
\* slices where something other than whitespace follows a complete
\* expression: a further number, an unrecognized character, a character
\* without handler, a further parenthesized expression, a stray close
\* parenthesis after a blank.
WholeCases ==
    {[src |-> Bytes("1 + 2"), val |-> 3], [src |-> Bytes("( 1 + 2 ) * 3"), val |-> 9],
     [src |-> Bytes("2 *") \o <<TAB>> \o Bytes("( 3 )"), val |-> 6],
     [src |-> Bytes("7 - 2"), val |-> 5]}
RemainderCases ==
    {Bytes(x) : x \in {"1 2", "1 x", "1 $", "1;", "1 = 2", "1 true", "1 0x", "1+2 3",
                       "(1)2", "(1)(2)", "1 (2)", "1 (", "2 )", "1 2 3", "1 ."}}

\* Literals with a separator between two digits: integers of the four
\* bases, and decimals with the separator in the integer part, in the
\* fraction, in the exponent and in several of them.
SeparatedLiterals ==
    {Bytes(x) : x \in {"1_0", "1_000", "1_2_3", "0x1_0", "0xf_f", "0b1_0", "0o1_0", "01_0",
                       "1_0.5", "1_000.5", "1.2_5", "1.5_0", "1.0_1", "0.0_1", ".5_5",
                       "1_0e2", "1_0E1", "1e0_1", "1e-0_1", "2.5e0_2", "1_0.2_5e0_1"}}

\* The expressions of the inputs.
NumberExpressions ==
    {c.src : c \in DurationChains \cup PrecedenceCases \cup IntegerOperandCases
                     \cup IntegerLiterals \cup SeparatorCases
                     \cup BalancedCases \cup DateTimeCases \cup WholeCases}
    \cup DecimalOperandCases \cup DivisionByZeroCases \cup UnclosedCases \cup UnopenedCases
    \cup HourTwentyFourCases \cup OutOfRangeCases \cup RemainderCases
    \cup SeparatedLiterals

NumberInputs == {pl.pre \o x \o pl.post : <<pl, x>> \in Places \X NumberExpressions}

InitNum == InitWith(NumberInputs \cup {Bytes("ttl: 1h30m")})

SpecNum == InitNum /\ [][Next]_vars

\* The expression x stands at the place pl of the input.
DecodedAt(pl, x) == in = pl.pre \o x \o pl.post

\* The output for the value json at the place pl.
JsonAt(pl, json) == pl.jpre \o json \o pl.jpost \o <<0>>

\* The output for the integer v at the place pl.
IntegerAt(pl, v) == JsonAt(pl, sprintfD(v))

\* Units of the content of a double-quoted string: plain bytes, a TAB, the
\* JSON-legal escapes, and backslashes that start none of them.
ContentUnits ==
    {Bytes("a"), <<TAB>>, <<SLASH>>, <<LESS>>, <<BSLASH, BSLASH>>, <<BSLASH, LOWER_N>>,
     <<BSLASH, SLASH>>, <<BSLASH, DQUOTE>>, <<BSLASH>> \o Bytes("u12eF"),
     <<BSLASH>> \o Bytes("u12G4"), <<BSLASH>> \o Bytes("u12"), <<BSLASH>> \o Bytes("x")}

\* The contents of one and two units, and of three of the units that act on
\* the byte after them. A content that ends with a backslash is left out:
\* the quote after it does not close the token.
Contents ==
    {c \in ContentUnits
           \cup {u[1] \o u[2] : u \in ContentUnits \X ContentUnits}
           \cup {u[1] \o u[2] \o u[3] :
                    u \in {<<LESS>>, <<BSLASH, BSLASH>>, <<SLASH>>, Bytes("x")}
                          \X {<<LESS>>, <<BSLASH, BSLASH>>, <<SLASH>>, Bytes("x")}
                          \X {<<LESS>>, <<BSLASH, BSLASH>>, <<SLASH>>, Bytes("x")}} :
        c[Len(c)] # BSLASH}

Quoted(c) == <<DQUOTE>> \o c \o <<DQUOTE>>

StringInputs == {pl.pre \o Quoted(c) \o pl.post : <<pl, c>> \in Places \X Contents}

\* Units of a line of a multiline literal: plain bytes, the control bytes
\* with a JSON escape of their own, other control bytes below and from 0x10
\* on, the bytes with a rewrite, the escaped back-tick, and a character of
\* two bytes.
LineUnits ==
    {Bytes("x"), <<8>>, <<TAB>>, <<CR>>, <<12>>, <<1>>, <<11>>, <<16>>, <<31>>, <<DQUOTE>>,
     <<BSLASH>>, <<LESS>>, <<SLASH>>, <<BTICK, BSLASH>>, <<195, 169>>}

\* The lines of one and two units.
Lines == LineUnits \cup {u[1] \o u[2] : u \in LineUnits \X LineUnits}

\* The two newline specifiers, spelled in the output as in the input.
NewlineSpecifiers == {<<BSLASH, LOWER_N>>, <<BSLASH, LOWER_R, BSLASH, LOWER_N>>}

\* The multiline literals: a newline specifier and the body lines, one line
\* of Lines, or two or three lines of a few of them.
MultilineLiterals ==
    LET few == {<<>>, Bytes("x"), <<LESS>>, <<SLASH>>, <<BTICK, BSLASH>>, <<1>>}
    IN  {[nl |-> nl, lines |-> <<l>>] : nl \in NewlineSpecifiers, l \in Lines}
        \cup {[nl |-> nl, lines |-> <<l[1], l[2]>>] : nl \in NewlineSpecifiers, l \in few \X few}
        \cup {[nl |-> nl, lines |-> <<Bytes("x"), l, Bytes("x")>>] :
                 nl \in NewlineSpecifiers, l \in few}

\* The margin of the multiline literals.
Margin == <<SP>>

\* The source of the multiline literal m from the end of the line before
\* its margin: every line starts with the margin.
RECURSIVE MarginLines(_, _)
MarginLines(lines, k) ==
    IF k > Len(lines) THEN <<>> ELSE <<LF>> \o Margin \o lines[k] \o MarginLines(lines, k + 1)

MultilineSource(m) ==
    <<LF>> \o Margin \o <<BTICK>> \o m.nl \o MarginLines(m.lines, 1) \o <<BTICK>>

MultilineInputs ==
    {pl.pre \o MultilineSource(m) \o pl.post : <<pl, m>> \in Places \X MultilineLiterals}

InitStr == InitWith(StringInputs \cup MultilineInputs)

SpecStr == InitStr /\ [][Next]_vars

\* The length of the JSON-legal escape that the backslash at index k of the
\* content c starts, 0 when it starts none.
EscapeLength(c, k) ==
    IF k + 1 > Len(c) THEN 0
    ELSE IF c[k + 1] \in {LOWER_T, LOWER_N, LOWER_R, Ch("f"), Ch("b"), SLASH, BSLASH, DQUOTE}
    THEN 2
    ELSE IF /\ c[k + 1] = LOWER_U
            /\ k + 5 <= Len(c)
            /\ \A j \in (k + 2)..(k + 5) : isHexDigit(c[j])
    THEN 6
    ELSE 0

\* The index of the first backslash of c, from index k on, that starts no
\* JSON-legal escape, each escape read as one unit; 0 when there is none.
RECURSIVE OffendingBackslash(_, _)
OffendingBackslash(c, k) ==
    IF k > Len(c) THEN 0
    ELSE IF c[k] # BSLASH THEN OffendingBackslash(c, k + 1)
    ELSE IF EscapeLength(c, k) = 0 THEN k
    ELSE OffendingBackslash(c, k + EscapeLength(c, k))

\* The content c from index k on with TAB as backslash-t and / after < with
\* a backslash in front.
RECURSIVE Reemitted(_, _)
Reemitted(c, k) ==
    IF k > Len(c) THEN <<>>
    ELSE (IF c[k] = TAB THEN <<BSLASH, LOWER_T>>
          ELSE IF c[k] = SLASH /\ k > 1 /\ c[k - 1] = LESS THEN <<BSLASH, SLASH>>
          ELSE <<c[k]>>) \o Reemitted(c, k + 1)

\* The byte at index k of a body line as the JSON string holds it.
EmittedByte(line, k) ==
    IF line[k] = 8 THEN <<BSLASH, Ch("b")>>
    ELSE IF line[k] = TAB THEN <<BSLASH, LOWER_T>>
    ELSE IF line[k] = CR THEN <<BSLASH, LOWER_R>>
    ELSE IF line[k] = 12 THEN <<BSLASH, Ch("f")>>
    ELSE IF line[k] < 32
    THEN <<BSLASH, LOWER_U, ZERO, ZERO, HexDigit(line[k] \div 16), HexDigit(line[k] % 16)>>
    ELSE IF line[k] \in {DQUOTE, BSLASH} THEN <<BSLASH, line[k]>>
    ELSE IF line[k] = SLASH /\ k > 1 /\ line[k - 1] = LESS THEN <<BSLASH, SLASH>>
    ELSE <<line[k]>>

\* The body line from index k on as the JSON string holds it: a back-tick
\* followed by a backslash is one back-tick.
RECURSIVE EmittedLine(_, _)
EmittedLine(line, k) ==
    IF k > Len(line) THEN <<>>
    ELSE IF line[k] = BTICK /\ k < Len(line) /\ line[k + 1] = BSLASH
    THEN <<BTICK>> \o EmittedLine(line, k + 2)
    ELSE EmittedByte(line, k) \o EmittedLine(line, k + 1)

\* The lines from index k on, joined by the newline specifier nl.
RECURSIVE EmittedLines(_, _, _)
EmittedLines(lines, nl, k) ==
    IF k > Len(lines) THEN <<>>
    ELSE (IF k > 1 THEN nl ELSE <<>>) \o EmittedLine(lines[k], 1) \o EmittedLines(lines, nl, k + 1)

\* What precedes the line of the error: nothing, or complete members with
\* LF and CRLF newlines, a comment that holds a newline, and a multiline
\* literal.
LinesBefore ==
    {<<>>, Bytes("a:1\n"), Bytes("a:[1,{b:2}]\r\n\n"), Bytes("a:1 /*\n\n*/\n"),
     Bytes("a:\n ") \o <<BTICK>> \o Bytes("\\n\n x\n y") \o <<BTICK>> \o Bytes("\n")}

\* What stands on the line before the error: blanks, comments, members,
\* characters of two and three bytes, and control characters in a comment
\* and at the end of a multiline literal.
LineBefore ==
    {<<>>, <<SP>>, <<TAB>>, Bytes("/**/"), Bytes("/* c */ "), Bytes("b:1,"),
     Bytes("/*") \o <<195, 169>> \o Bytes("*/"), Bytes("b:'") \o <<195, 169>> \o Bytes("',"),
     <<226, 130, 172>> \o Bytes(":1,"), Bytes("b:\"") \o <<195, 169, 226, 130, 172>> \o Bytes("\" "),
     Bytes("/*") \o <<1>> \o Bytes("*/"), Bytes("/*") \o <<TAB, 31>> \o Bytes("*/ "),
     Bytes("b:\n ") \o <<BTICK>> \o Bytes("\\n\n x") \o <<1, BTICK>> \o Bytes(" ,")}

\* What raises the error: a colon where a member is expected, an unclosed
\* array, an illegal escape, a number without its operand, a separator at
\* the end of a number, a control character, and an unclosed string.
ErrorTriggers ==
    {Bytes(":"), Bytes("c:[1"), Bytes("c:\"\\x\""), Bytes("c:1+"), Bytes("c: 1_"), <<1>>,
     Bytes("c:'x"), Bytes("c:{d:1"), Bytes("c:1 /*")}

PositionInputs ==
    {t[1] \o t[2] \o t[3] : t \in LinesBefore \X LineBefore \X ErrorTriggers}

InitPos == InitWith(PositionInputs)

SpecPos == InitPos /\ [][Next]_vars

\* The number of newlines of the input before the byte index b, a CRLF
\* being one newline.
NewlinesBefore(b) == Cardinality({k \in 1..b : in[k] = LF})

\* The byte index of the start of the line that holds the byte index b.
LineStart(b) == IF NewlinesBefore(b) = 0 THEN 0 ELSE CHOOSE k \in 1..b :
                    in[k] = LF /\ \A j \in (k + 1)..b : in[j] # LF

\* The number of UTF-8 codepoints between the byte indexes s and b: every
\* byte but the continuation bytes starts one.
CodepointsBetween(s, b) == Cardinality({k \in (s + 1)..b : in[k] < 128 \/ in[k] > 191})

\* The bytes of the short lexical inputs: a letter, a blank, the bytes of the
\* newlines, the delimiters, the bytes of the comments, the quotes, the
\* backslash, a control character and the two bytes of a character.
LexAlphabet ==
    {Ch("a"), SP, LF, CR, COLON, COMMA, SLASH, STAR, HASH, LSQUARE, RSQUARE, LBRACE, RBRACE,
     DQUOTE, SQUOTE, BTICK, BSLASH, 1, 195, 169}

\* The longest sequence drawn from LexAlphabet.
MaxLexLen == 3

LexTails == UNION {[1..n -> LexAlphabet] : n \in 0..MaxLexLen}

\* Quoteless tokens with the bytes of the token the scan is expected to
\* return: date-times whose colons belong to the token, colons that do not
\* continue a date-time, a lone slash, the two comment openers, a number
\* sign, a newline of two bytes, and blanks inside and after the token.
TokenCases ==
    {[src |-> Bytes(x), tok |-> Bytes(x)] :
        x \in {"1970-01-01T12:30", "1970-01-01T12:30:45", "1970-01-01T12:30:45Z",
               "1970-01-01T12:30:45.123+01:00", "1970-01-01T12:30 x", "x1970-01-01T12:30",
               "a/b", "a/ b", "a /", "a b"}}
    \cup {[src |-> Bytes(x), tok |-> Bytes("1970-01-01T12")] :
            x \in {"1970-01-01T12:3", "1970-01-01T12:30:4", "1970-01-01T12 :30",
                   "1970-01-01T12:", "1970-01-01T12:30:45.5"}}
    \cup {[src |-> Bytes("1970-01-01 12:30"), tok |-> Bytes("1970-01-01 12")],
          [src |-> Bytes("12:30"), tok |-> Bytes("12")],
          [src |-> Bytes("970-01-01T12:30"), tok |-> Bytes("970-01-01T12")],
          [src |-> Bytes("a b //c"), tok |-> Bytes("a b")],
          [src |-> Bytes("a/*b*/"), tok |-> Bytes("a")],
          [src |-> Bytes("a#b"), tok |-> Bytes("a")],
          [src |-> Bytes("a b") \o <<SP, TAB, 194, 160, CR, LF>>, tok |-> Bytes("a b")],
          [src |-> Bytes("a") \o <<TAB, 194, 160>> \o Bytes("b "), 
           tok |-> Bytes("a") \o <<TAB, 194, 160>> \o Bytes("b")]}

LexInputs ==
    LexTails \cup {Bytes("a:") \o x : x \in LexTails}
    \cup {pl.pre \o c.src \o pl.post : <<pl, c>> \in Places \X TokenCases}

InitLex == InitWith(LexInputs)

SpecLex == InitLex /\ [][Next]_vars

\* A call of qchar on the text left to parse: the error or the length it
\* returned is kept in tk; the text left and the position stay.
Classify ==
    /\ state = "start"
    /\ tk' = IF qchar([in |-> in, sgn |-> sgn, p |-> p, pos |-> pos]).err # NoErr
             THEN ErrorToken(pos, qchar([in |-> in, sgn |-> sgn, p |-> p, pos |-> pos]).err)
             ELSE Token("tagUnknown", pos,
                        Slice(p.p, qchar([in |-> in, sgn |-> sgn, p |-> p, pos |-> pos]).n),
                        NoErr)
    /\ state' = "classified"
    /\ UNCHANGED <<in, sgn, p, pos, depth, out, stack, ret, result>>

\* The popBytes(e, n) that follows a successful qchar in the loops.
Pop ==
    /\ state = "classified"
    /\ tk.tag # "tagError"
    /\ tk.val.l > 0
    /\ p' = Slice(p.p + tk.val.l, p.l - tk.val.l)
    /\ pos' = [pos EXCEPT !.b = pos.b + tk.val.l]
    /\ state' = "start"
    /\ UNCHANGED <<in, sgn, tk, depth, out, stack, ret, result>>

\* The byte sequences given to qchar: every byte alone, every byte after a
\* lead byte of each row of utf8Table, every byte in the third place and
\* every byte in the fourth place after the two ends of each range.
CharPrefixes ==
    {<<>>, <<Ch("a")>>, <<128>>, <<193>>, <<194>>, <<223>>, <<224>>, <<225>>, <<236>>,
     <<237>>, <<238>>, <<239>>, <<240>>, <<241>>, <<243>>, <<244>>, <<245>>,
     <<194, 169>>, <<224, 160>>, <<224, 191>>, <<225, 128>>, <<237, 128>>, <<237, 159>>,
     <<239, 191>>, <<240, 144>>, <<241, 191>>, <<244, 128>>, <<244, 143>>,
     <<225, 128, 128>>, <<240, 144, 128>>, <<241, 191, 191>>, <<244, 143, 191>>}

CharInputs == {c \o <<b>> : c \in CharPrefixes, b \in 0..255}

\* The engine as qjson_decode initialises it, before its first call of
\* nextToken.
InitEngine(inputs) ==
    /\ in \in inputs
    /\ sgn \in BOOLEAN
    /\ p = Slice(0, Len(in))
    /\ pos = Pos(0, 0, 0)
    /\ tk = Token("tagUnknown", Pos(0, 0, 0), NullSlice, NoErr)
    /\ depth = 0
    /\ out = <<>>
    /\ stack = <<>>
    /\ ret = FALSE
    /\ state = "start"
    /\ result = <<>>

InitChar == InitEngine(CharInputs)

SpecChar == InitChar /\ [][Classify \/ Pop]_vars

\* The engine after a call of nextToken that returned r.
LexTo(r) ==
    /\ p' = r.e.p
    /\ pos' = r.e.pos
    /\ tk' = r.tk
    /\ state' = IF r.failed THEN "aborted" ELSE "lexed"
    /\ UNCHANGED <<in, sgn, depth, out, stack, ret, result>>

\* A call of nextToken alone.
Lex ==
    /\ state \in {"start", "lexed"}
    /\ LexTo(nextToken([in |-> in, sgn |-> sgn, p |-> p, pos |-> pos], tk))

\* The lexer alone, called until it returns an error, on the short lexical
\* inputs, the inputs with lines, comments and control characters before an
\* error, the multiline strings, and every byte but NUL alone and before a
\* letter.
InitTok ==
    InitEngine(LexInputs \cup PositionInputs \cup MultilineInputs
               \cup {<<b>> : b \in 1..255} \cup {<<b, Ch("a")>> : b \in 1..255})

SpecTok == InitTok /\ [][Lex]_vars

\* A step of the decode can be taken: the call has not returned.
Active == state \in {"start", "running"}

\* The decode of the short lexical inputs as the one sequential call it is:
\* a step that can be taken is taken, since nothing else runs.  This is
\* WF_vars(Next) written out, with Active for ENABLED <<Next>>_vars.
SpecLive == InitLex /\ [][Next]_vars /\ ([]<>~Active \/ []<><<Next>>_vars)

\* The deepest nesting of the inputs.
MaxNest == 202

\* The text w, n times.
Repeat(w, n) == [k \in 1..(n * Len(w)) |-> w[((k - 1) % Len(w)) + 1]]

\* The two ways to nest: an array in an array, an object in an object.
Nests ==
    {[open |-> Bytes("["), close |-> Bytes("]"), last |-> Bytes("["), item |-> Bytes("1")],
     [open |-> Bytes("{b:"), close |-> Bytes("}"), last |-> Bytes("{"), item |-> Bytes("c:1")]}

\* What follows the innermost opening delimiter: nothing, an item, an item
\* and every closing delimiter.
NestedInputs ==
    {[n |-> n, nest |-> c, tail |-> t] :
        n \in (maxDepth - 1)..MaxNest, c \in Nests, t \in {"none", "item", "closed"}}

NestedInput(c) ==
    Bytes("a:") \o Repeat(c.nest.open, c.n - 1) \o c.nest.last
       \o (IF c.tail = "none" THEN <<>>
           ELSE IF c.tail = "item" THEN c.nest.item
           ELSE c.nest.item \o Repeat(c.nest.close, c.n))

\* The JSON of a closed nested input.
NestedJson(c) ==
    Bytes("{\"a\":")
       \o (IF c.nest.last = Bytes("[")
           THEN Repeat(Bytes("["), c.n) \o Bytes("1")
           ELSE Repeat(Bytes("{\"b\":"), c.n - 1) \o Bytes("{\"c\":1"))
       \o Repeat(c.nest.close, c.n) \o Bytes("}")

InitNest == InitWith({NestedInput(c) : c \in NestedInputs})

SpecNest == InitNest /\ [][Next]_vars

----------------------------------------------------------------------------
\* Properties of the decoder's result.

Returned == state = "returned"

\* The C string s: its bytes and the terminating NUL.
CString(s) == s \o <<0>>

\* No error occurred: the input is empty, or the parse ended at the end of
\* the input.
NoError == in = <<>> \/ tk.err = ErrEndOfInput

\* The diagnostic of the message msg at line l and column c.
DiagnosticText(msg, l, c) ==
    MsgBytes(msg) \o Bytes(" at line ") \o sprintfD(l) \o Bytes(" col ") \o sprintfD(c)

\* The result is the diagnostic of msg, at any position.
HasMessage(msg) ==
    LET head == MsgBytes(msg) \o Bytes(" at line ")
    IN  Len(result) > Len(head) /\ SubSeq(result, 1, Len(head)) = head

\* C1: qjson_decode never aborts, and the string it returns is not empty and
\* ends with its only NUL; its first byte is '{' iff no error occurred; when
\* an error occurred it is the error's message followed by
\* " at line L col C" and nothing else, so no part of the JSON output before
\* the error.
C1_Result ==
    /\ state # "aborted"
    /\ Returned =>
        /\ Len(result) >= 2
        /\ result[Len(result)] = 0
        /\ \A k \in 1..(Len(result) - 1) : result[k] # 0
        /\ (result[1] = LBRACE) <=> NoError
        /\ ~NoError =>
              \E c \in 1..(Len(in) + 1) :
                  result = CString(DiagnosticText(tk.err, tk.pos.l + 1, c))

\* C1: an input whose array is output before the error is found.
C1_Witness ==
    /\ Returned
    /\ in = Bytes("a:[1")
    /\ ~NoError
    /\ result = CString(Bytes("unclosed array at line 1 col 4"))

\* C2, as the specification states it: every strict JSON text of StrictJson
\* is accepted and yields the JSON document of the same value, here the text
\* itself.
C2_StrictJsonAccepted == (Returned /\ in \in StrictJson) => result = CString(in)

\* C3: decode of the empty input returns exactly {}.
C3_Empty == (Returned /\ in = <<>>) => result = CString(Bytes("{}"))

\* C3: the empty input has been decoded.
C3_Witness == Returned /\ in = <<>> /\ stack = <<>> /\ out = <<>>

C8_ObjectComma ==
    /\ \A e1 \in Entries : \A e2 \in Entries : \A sep \in SeparatorsAfter(e1) :
          (Returned /\ in = e1.src \o sep \o e2.src)
              => result = CString(<<LBRACE>> \o e1.json \o <<COMMA>> \o e2.json \o <<RBRACE>>)
    /\ (Returned /\ in \in TrailingCommaObjects) => HasMessage(ErrExpectIdentifierAfterComma)

\* C8: two entries without a comma between them have been decoded.
C8_Witness ==
    /\ Returned
    /\ in = Bytes("a:\"x\" b:[1]")
    /\ result = CString(Bytes("{\"a\":\"x\",\"b\":[1]}"))

\* C9, as the specification states it: the input {a:1 gives
\* "unclosed object at line 1 col 1".
C9_UnclosedTopLevel ==
    (Returned /\ in = Bytes("{a:1"))
        => result = CString(Bytes("unclosed object at line 1 col 1"))

\* The line and the column of the byte that follows the text pre.
LineAfter(pre) == 1 + Cardinality({k \in 1..Len(pre) : pre[k] = LF})
ColAfter(pre) ==
    1 + Cardinality({k \in 1..Len(pre) : \A j \in k..Len(pre) : pre[j] # LF})

\* C10, as the specification states it: an input that ends inside a nested
\* object or array gives "unclosed object" or "unclosed array" at the line
\* and the column of the container's opening delimiter.
C10_UnclosedAnchored ==
    \A c \in UnclosedContainers :
        (Returned /\ in = UnclosedInput(c))
            => result = CString(DiagnosticText(
                            IF c.open = LBRACE THEN ErrUnclosedObject ELSE ErrUnclosedArray,
                            LineAfter(c.pre), ColAfter(c.pre)))

\* C4: each of yes, no, on, off, true, false and null, in lowercase, in
\* uppercase or capitalized, is output as the JSON literal it stands for,
\* wherever a value stands.
C4_Synonyms ==
    \A k \in Keywords : \A w \in Variations(k.word) : \A pl \in Places :
        (Returned /\ in = pl.pre \o w \o pl.post)
            => result = CString(pl.jpre \o k.json \o pl.jpost)

\* C4: a capitalized synonym has been decoded in an array.
C4_Witness ==
    /\ Returned
    /\ in = Bytes("a:[1,Off]")
    /\ result = CString(Bytes("{\"a\":[1,false]}"))

\* C5, as the specification states it: a token of two to five bytes that
\* starts with a keyword and is not one is output as the JSON string of its
\* text.
C5_WholeToken ==
    \A t \in LongerTokens : \A pl \in Places :
        (Returned /\ in = pl.pre \o t \o pl.post)
            => result = CString(pl.jpre \o <<DQUOTE>> \o t \o <<DQUOTE>> \o pl.jpost)

\* The nesting of the input c is more than maxDepth and a token follows the
\* opening delimiter that exceeds it.
TokenAfterExceeding(c) == c.n > maxDepth + 1 \/ (c.n = maxDepth + 1 /\ c.tail # "none")

\* C6, amended: depth stays within 0..maxDepth; an input nested maxDepth
\* deep or less never gives "too many object or array encapsulations" and
\* decodes when it is closed; an input nested deeper gives it when a token
\* follows the opening delimiter that exceeds maxDepth, and gives
\* "unclosed array" or "unclosed object" when the input ends there.
C6_NestingCap ==
    /\ depth \in 0..maxDepth
    /\ \A c \in NestedInputs :
          (Returned /\ in = NestedInput(c)) =>
              /\ c.n <= maxDepth => ~HasMessage(ErrMaxObjectArrayDepth)
              /\ (c.n <= maxDepth /\ c.tail = "closed") => result = CString(NestedJson(c))
              /\ TokenAfterExceeding(c) => HasMessage(ErrMaxObjectArrayDepth)
              /\ (c.n > maxDepth /\ ~TokenAfterExceeding(c))
                    => HasMessage(IF c.nest.last = Bytes("[")
                                  THEN ErrUnclosedArray ELSE ErrUnclosedObject)

\* C6: an input nested one deeper than maxDepth has been refused with the
\* counter at maxDepth.
C6_Witness ==
    /\ Returned
    /\ \E c \in NestedInputs : c.n = maxDepth + 1 /\ c.tail = "item" /\ in = NestedInput(c)
    /\ depth = maxDepth
    /\ tk.err = ErrMaxObjectArrayDepth

\* C6, as the specification states it: every input nested deeper than
\* maxDepth gives "too many object or array encapsulations".
C6_EveryDeeperInput ==
    \A c \in NestedInputs :
        (Returned /\ in = NestedInput(c) /\ c.n > maxDepth)
            => HasMessage(ErrMaxObjectArrayDepth)

\* The messages that replace the end-of-input sentinel.
EndOfInputRewrites ==
    {ErrUnclosedObject, ErrUnclosedArray, ErrUnexpectedEndOfInput,
     ErrExpectIdentifierAfterComma, ErrExpectValueAfterComma}

\* C11: once the token is an error, nextToken leaves the token, the
\* position and the remaining input as they are, and every step of the
\* parser leaves the position and the remaining input as they are and the
\* token an error; the token itself changes only from the end-of-input
\* sentinel, to a message of EndOfInputRewrites.
C11_FirstErrorWins ==
    /\ [](tk.tag = "tagError" => NextTk(Engine) = Engine)
    /\ [][tk.tag = "tagError" =>
             /\ tk'.tag = "tagError"
             /\ p' = p
             /\ pos' = pos
             /\ tk.err # ErrEndOfInput => tk' = tk
             /\ tk' # tk => tk'.err \in EndOfInputRewrites]_vars

\* C11: member has called nextToken after its own error, input remains,
\* and the decoder has returned that error.
C11_Witness ==
    /\ Returned
    /\ in = Bytes("{a:1")
    /\ tk.err = ErrExpectStringIdentifier
    /\ p.l > 0

\* C12: a chain of quantities, each followed by a unit suffix, is output as
\* the sum of the quantities times the seconds of their units; ttl: 1h30m
\* gives {"ttl":5400}.
C12_DurationChain ==
    Returned =>
        /\ \A c \in DurationChains : \A pl \in Places :
              DecodedAt(pl, c.src) => result = IntegerAt(pl, c.val)
        /\ in = Bytes("ttl: 1h30m") => result = CString(Bytes("{\"ttl\":5400}"))

\* C12: a chain of three terms has been decoded.
C12_Witness ==
    /\ Returned
    /\ in = Bytes("a:1d2h2m")
    /\ result = CString(Bytes("{\"a\":93720}"))

\* C13, as the specification states it: an expression of integers is
\* output as the value of its fully parenthesized form, with a
\* unit-suffixed operand to the right or to the left of a binary operator.
C13_Precedence ==
    Returned =>
        \A c \in PrecedenceCases : \A pl \in Places :
            DecodedAt(pl, c.src) => result = IntegerAt(pl, c.val)

C15_IntegerLiterals ==
    Returned =>
        \A pl \in Places, lit \in IntegerLiterals :
            DecodedAt(pl, lit.src) =>
                IF AboveMaxInt64(lit.text) THEN HasMessage(ErrNumberOverflow)
                ELSE result = JsonAt(pl, lit.text)

\* The result is a diagnostic, not a JSON output.
IsDiagnostic == result[1] # LBRACE

\* C16: a number whose separators each stand between two digits has its
\* value, 0 alone is the integer 0, and 1_, _1, 0b and every number with a
\* separator at the start or the end of a digit run or next to another
\* separator end in a diagnostic.
C16_DigitSeparators ==
    Returned =>
        \A pl \in Places, c \in SeparatorCases :
            DecodedAt(pl, c.src) =>
                IF c.val < 0 THEN IsDiagnostic ELSE result = IntegerAt(pl, c.val)

\* C17: an expression with an open parenthesis that is not closed ends in
\* missing close parenthesis, one with a close parenthesis that was not
\* opened ends in missing open parenthesis wherever the parenthesis stands,
\* and a balanced one has its value.
C17_Parentheses ==
    Returned =>
        \A pl \in Places :
            /\ \A x \in UnclosedCases :
                 DecodedAt(pl, x) => HasMessage(ErrUnclosedParenthesis)
            /\ \A x \in UnopenedCases :
                 DecodedAt(pl, x) => HasMessage(ErrUnopenedParenthesis)
            /\ \A c \in BalancedCases :
                 DecodedAt(pl, c.src) => result = IntegerAt(pl, c.val)

\* C18: an ISO date-time literal with hour 24 and a non-zero minute, second
\* or fraction, and one with a month, day, hour, minute or second outside its
\* range, end in invalid ISO date time; hour 24 with zero minute, second and
\* fraction is the end of the day.
C18_HourTwentyFour ==
    Returned =>
        \A pl \in Places :
            /\ \A x \in HourTwentyFourCases \cup OutOfRangeCases :
                 DecodedAt(pl, x) => HasMessage(ErrInvalidISODateTime)
            /\ \A c \in DateTimeCases :
                 DecodedAt(pl, c.src) => result = IntegerAt(pl, c.val)

\* The message of an illegal escape as the specification spells it.
InvalidEscapeSequence == Bytes("invalid escape sequence")

\* C19: a double-quoted string with a backslash that starts no JSON-legal
\* escape, each escape read as one unit, ends in invalid escape sequence at
\* the first such backslash; any other one is written with its content
\* unchanged but for TAB and for / after <.
C19_DoubleQuotedEscapes ==
    Returned =>
        \A pl \in Places, c \in Contents :
            DecodedAt(pl, Quoted(c)) =>
                IF OffendingBackslash(c, 1) > 0
                THEN result = CString(InvalidEscapeSequence \o Bytes(" at line 1 col ")
                                      \o sprintfD(Len(pl.pre) + 1 + OffendingBackslash(c, 1)))
                ELSE result = JsonAt(pl, Quoted(Reemitted(c, 1)))

\* C20: a multiline literal is written as its body lines without the
\* margin, joined by its newline specifier, with each byte of the body
\* escaped, rewritten or copied as the JSON string requires.
C20_MultilineOutput ==
    Returned =>
        \A pl \in Places, m \in MultilineLiterals :
            DecodedAt(pl, MultilineSource(m)) =>
                result = JsonAt(pl, Quoted(EmittedLines(m.lines, m.nl, 1)))

\* C21: the line of a diagnostic is 1 plus the number of newlines before the
\* position of the error, and its column is 1 plus the number of UTF-8
\* codepoints between the start of that line and the position, whatever
\* bytes stand on the line.
C21_LineColumn ==
    (Returned /\ ~NoError) =>
        result = CString(DiagnosticText(tk.err, 1 + NewlinesBefore(tk.pos.b),
                             1 + CodepointsBetween(LineStart(tk.pos.b), tk.pos.b)))

\* C22: a slice that is one well-formed expression from its first byte to its
\* last has its value, and a slice where a byte other than whitespace remains
\* after a complete expression ends in a diagnostic, never in the value of
\* the expression before the remainder.
C22_WholeSlice ==
    Returned =>
        \A pl \in Places :
            /\ \A c \in WholeCases :
                 DecodedAt(pl, c.src) => result = IntegerAt(pl, c.val)
            /\ \A x \in RemainderCases :
                 DecodedAt(pl, x) => IsDiagnostic

\* The byte at index k of the input ends a quoteless token: one of
\* , : { } [ ] #, a newline of one or two bytes, or the first byte of one of
\* the two comment openers.
Terminates(k) ==
    \/ in[k] \in {COMMA, COLON, LBRACE, RBRACE, LSQUARE, RSQUARE, HASH, LF}
    \/ k < Len(in) /\ in[k] = CR /\ in[k + 1] = LF
    \/ k < Len(in) /\ in[k] = SLASH /\ in[k + 1] \in {SLASH, STAR}

\* The byte at index k lies after hour and before the end of a date-time.
InDateTime(k) ==
    \E d \in 0..(k - 14) :
        /\ parseISODateTimeLiteral(in, Slice(d, Len(in) - d)) > 13
        /\ k <= d + parseISODateTimeLiteral(in, Slice(d, Len(in) - d))

\* A whitespace character ends at index k.
BlankEndsAt(k) ==
    \/ in[k] \in {SP, TAB}
    \/ k > 1 /\ in[k - 1] = 194 /\ in[k] = 160

\* The index of the first byte from index k on that is not whitespace.
RECURSIVE AfterBlanks(_)
AfterBlanks(k) ==
    IF k > Len(in) THEN k
    ELSE IF in[k] \in {SP, TAB} THEN AfterBlanks(k + 1)
    ELSE IF k < Len(in) /\ in[k] = 194 /\ in[k + 1] = 160 THEN AfterBlanks(k + 2)
    ELSE k

\* The bytes of the current token.
TokenBytes == SubSeq(in, tk.val.p + 1, tk.val.p + tk.val.l)

LeadLength(b) ==
    IF b < 128 THEN (IF b = TAB \/ b >= 32 THEN 1 ELSE 0)
    ELSE IF b \in 194..223 THEN 2
    ELSE IF b \in 224..239 THEN 3
    ELSE IF b \in 240..244 THEN 4
    ELSE 0

\* The second bytes that RFC 3629 allows after the lead byte b.
SecondBytes(b) ==
    IF b = 224 THEN 160..191
    ELSE IF b = 237 THEN 128..159
    ELSE IF b = 240 THEN 144..191
    ELSE IF b = 244 THEN 128..143
    ELSE 128..191

\* The n bytes from index k of the input are a well-formed encoding.
WellFormed(k, n) ==
    /\ n = LeadLength(in[k])
    /\ n >= 2 => in[k + 1] \in SecondBytes(in[k])
    /\ \A j \in 2..(n - 1) : in[k + j] \in 128..191

\* What qchar is to return on the text left to parse.
Classified ==
    IF LeadLength(in[p.p + 1]) = 0 THEN ErrorToken(pos, ErrInvalidChar)
    ELSE IF LeadLength(in[p.p + 1]) > p.l THEN ErrorToken(pos, ErrTruncatedChar)
    ELSE IF WellFormed(p.p + 1, LeadLength(in[p.p + 1]))
    THEN Token("tagUnknown", pos, Slice(p.p, LeadLength(in[p.p + 1])), NoErr)
    ELSE ErrorToken(pos, ErrInvalidChar)

\* C24: on a text that is not empty, qchar returns the length n when the
\* first n bytes are a well-formed encoding of a character that is TAB or
\* not below 0x20, last utf8 char is truncated when the lead byte asks for
\* more bytes than are left, and invalid character otherwise, at the
\* position of the text.
C24_Classifier ==
    (state = "classified" /\ p.l > 0) => tk = Classified

\* C25: across every call of nextToken the byte index and the line index
\* do not decrease, and the byte index is greater after a call that returned
\* a token that is not an error.
C25_Monotonic ==
    [][/\ pos'.b >= pos.b
       /\ pos'.l >= pos.l
       /\ tk'.tag # "tagError" => pos'.b > pos.b]_vars

\* A token returned on the third line or later, after other tokens.
C25_Witness ==
    /\ state = "lexed"
    /\ tk.tag \notin {"tagError", "tagUnknown"}
    /\ pos.l >= 2
    /\ tk.pos.b > 0

\* C26: after every call of the lexer the text left to parse starts at the
\* byte index of the position and ends with the input, its length is the
\* length of the input minus the byte index and is not negative, and the
\* start of the line is between 0 and the byte index, which is at most the
\* length of the input.
C26_Position ==
    /\ p.p = pos.b
    /\ p.l = Len(in) - pos.b
    /\ p.l >= 0
    /\ 0 <= pos.s
    /\ pos.s <= pos.b
    /\ pos.b <= Len(in)

\* A multiline string was returned on a later line and input is left.
C26_Witness ==
    /\ state = "lexed"
    /\ tk.tag = "tagMultilineString"
    /\ pos.s > 0
    /\ pos.b > pos.s
    /\ p.l > 0

\* The weight of the frame f of an active call in the count of the steps
\* left; top tells whether it is the running call.
FrameRank(f, top) ==
    IF f.fn \in {"members", "values"}
    THEN (IF f.pc = "enter" THEN 14 ELSE IF f.pc = "loop" THEN 12 ELSE IF top THEN 13 ELSE 10)
    ELSE IF f.pc = "enter" THEN 1
    ELSE IF top THEN 5
    ELSE IF f.fn = "member" THEN 1
    ELSE 0

RECURSIVE StackRank(_)
StackRank(k) ==
    IF k = 0 THEN 0 ELSE FrameRank(stack[k], k = Len(stack)) + StackRank(k - 1)

\* A bound of the steps left that is linear in the bytes left: 20 for each
\* byte left, 20 while no error is set, and the weights of the active calls.
StepsLeft ==
    20 * (Len(in) - pos.b) + (IF tk.tag = "tagError" THEN 0 ELSE 20) + StackRank(Len(stack))
    + (IF state = "start" THEN 2 ELSE IF state = "running" THEN 1 ELSE 0)

\* C27: the decode returns on every input: each step of the parser lowers
\* StepsLeft, which is never negative and starts at 20 times the length of
\* the input plus 22, and each body of member and of value, of which every
\* iteration of the loops of members and values runs one, consumes a byte or
\* sets an error.
C27_Terminates ==
    /\ [](StepsLeft >= 0)
    /\ [][StepsLeft' < StepsLeft]_vars
    /\ [][(Running("member", "enter") \/ Running("value", "enter"))
             => (pos'.b > pos.b \/ tk'.tag = "tagError")]_vars
    /\ <>(state = "returned")

\* A decode returned its output after a second iteration of the loop of
\* values.
C27_Witness ==
    /\ Returned
    /\ NoError
    /\ \E k \in 1..Len(in) : in[k] = LSQUARE
    /\ \E k \in 1..Len(in) : in[k] = COMMA
    /\ StepsLeft = 0

\* The tag of the token that starts with the byte b.
RecognizerOf(b) ==
    IF b = COMMA THEN "tagComma"
    ELSE IF b = COLON THEN "tagColon"
    ELSE IF b = LSQUARE THEN "tagOpenSquare"
    ELSE IF b = RSQUARE THEN "tagCloseSquare"
    ELSE IF b = LBRACE THEN "tagOpenBrace"
    ELSE IF b = RBRACE THEN "tagCloseBrace"
    ELSE IF b = DQUOTE THEN "tagDoubleQuotedString"
    ELSE IF b = SQUOTE THEN "tagSingleQuotedString"
    ELSE IF b = BTICK THEN "tagMultilineString"
    ELSE "tagQuotelessString"

\* C28: no call of nextToken ends on its assertion: each call returns an
\* error or the token of the one recognizer that the first byte after the
\* blanks and comments selects, and the slice of a string token, the
\* quoteless one included, is not empty.
C28_NoAssertion ==
    /\ state # "aborted"
    /\ (state = "lexed" /\ tk.tag # "tagError") =>
           /\ tk.tag = RecognizerOf(in[tk.pos.b + 1])
           /\ tk.tag \in {"tagDoubleQuotedString", "tagSingleQuotedString",
                           "tagMultilineString", "tagQuotelessString"} => tk.val.l > 0

\* A quoteless token of one byte was returned after a comment.
C28_Witness ==
    /\ state = "lexed"
    /\ tk.tag = "tagQuotelessString"
    /\ tk.val.l = 1
    /\ tk.pos.b > 0
    /\ in[tk.pos.b] \in {LF, SLASH}

\* The tokens of the JSON text s from its byte k on, after the tokens acc:
\* a delimiter is its byte, a string is DQUOTE, any other run of bytes
\* without a blank is ZERO, and a string without its closing quote ends
\* the tokens with 0. mode is "plain" between tokens, "scalar" inside a run,
\* "string" inside a string and "escape" after a backslash inside a string.
RECURSIVE JsonTokens(_, _, _, _)
JsonTokens(s, k, mode, acc) ==
    IF k > Len(s)
    THEN IF mode \in {"string", "escape"} THEN Append(acc, 0) ELSE acc
    ELSE IF mode = "escape" THEN JsonTokens(s, k + 1, "string", acc)
    ELSE IF mode = "string"
    THEN JsonTokens(s, k + 1,
                    IF s[k] = BSLASH THEN "escape"
                    ELSE IF s[k] = DQUOTE THEN "plain" ELSE "string", acc)
    ELSE IF s[k] = DQUOTE THEN JsonTokens(s, k + 1, "string", Append(acc, DQUOTE))
    ELSE IF s[k] \in {LBRACE, RBRACE, LSQUARE, RSQUARE, COLON, COMMA}
    THEN JsonTokens(s, k + 1, "plain", Append(acc, s[k]))
    ELSE IF s[k] \in {SP, TAB, LF, CR} THEN JsonTokens(s, k + 1, "plain", acc)
    ELSE JsonTokens(s, k + 1, "scalar", IF mode = "scalar" THEN acc ELSE Append(acc, ZERO))

\* What the JSON grammar wants after a value inside the containers open,
\* innermost last: the end of the text, or a comma or the closing delimiter.
AfterValue(open) == [want |-> IF open = <<>> THEN "end" ELSE "more", open |-> open]

\* What the JSON grammar wants after the token c that starts a value.
JsonValue(open, c) ==
    IF c \in {DQUOTE, ZERO} THEN AfterValue(open)
    ELSE IF c = LBRACE THEN [want |-> "keyOrClose", open |-> Append(open, LBRACE)]
    ELSE IF c = LSQUARE THEN [want |-> "valueOrClose", open |-> Append(open, LSQUARE)]
    ELSE [want |-> "bad", open |-> open]

\* What the JSON grammar wants after the token c, which closes the
\* innermost container if it is its closing delimiter.
JsonClose(open, c) ==
    IF open # <<>> /\ c = (IF open[Len(open)] = LBRACE THEN RBRACE ELSE RSQUARE)
    THEN AfterValue(SubSeq(open, 1, Len(open) - 1))
    ELSE [want |-> "bad", open |-> open]

\* What the JSON grammar of an object wants after the token c, when it
\* wanted want inside the containers open: "object" is the opening brace
\* of the text, "keyOrClose" follows an opening brace, "key" a comma inside
\* an object, "colon" a key, "value" a colon or a comma inside an array,
\* "valueOrClose" an opening bracket, "more" a value inside a container,
\* "end" the last closing brace, and "bad" a token the grammar rejects.
JsonStep(want, open, c) ==
    IF want = "object"
    THEN IF c = LBRACE THEN [want |-> "keyOrClose", open |-> <<LBRACE>>]
         ELSE [want |-> "bad", open |-> open]
    ELSE IF want = "keyOrClose" /\ c = RBRACE THEN JsonClose(open, c)
    ELSE IF want \in {"key", "keyOrClose"}
    THEN [want |-> IF c = DQUOTE THEN "colon" ELSE "bad", open |-> open]
    ELSE IF want = "colon"
    THEN [want |-> IF c = COLON THEN "value" ELSE "bad", open |-> open]
    ELSE IF want = "valueOrClose" /\ c = RSQUARE THEN JsonClose(open, c)
    ELSE IF want \in {"value", "valueOrClose"} THEN JsonValue(open, c)
    ELSE IF want = "more" /\ c = COMMA
    THEN [want |-> IF open[Len(open)] = LBRACE THEN "key" ELSE "value", open |-> open]
    ELSE IF want = "more" THEN JsonClose(open, c)
    ELSE [want |-> "bad", open |-> open]

\* The tokens t from the k-th on are what the grammar wants in st, up to
\* the end of the one object.
RECURSIVE JsonStructure(_, _, _)
JsonStructure(t, k, st) ==
    IF st.want = "bad" THEN FALSE
    ELSE IF k > Len(t) THEN st.want = "end"
    ELSE JsonStructure(t, k + 1, JsonStep(st.want, st.open, t[k]))

\* The text s is one JSON object as far as its structural tokens go.
JsonObject(s) ==
    JsonStructure(JsonTokens(s, 1, "plain", <<>>), 1, [want |-> "object", open |-> <<>>])

\* The widest nesting the output reached: the deepest container of the
\* tokens t from the k-th on, d containers being open and m the deepest
\* so far.
RECURSIVE DeepestOpen(_, _, _, _)
DeepestOpen(t, k, d, m) ==
    IF k > Len(t) THEN m
    ELSE IF t[k] \in {LBRACE, LSQUARE}
    THEN DeepestOpen(t, k + 1, d + 1, IF d + 1 > m THEN d + 1 ELSE m)
    ELSE IF t[k] \in {RBRACE, RSQUARE} THEN DeepestOpen(t, k + 1, d - 1, m)
    ELSE DeepestOpen(t, k + 1, d, m)

\* C29: when qjson_decode returns without an error, the structural tokens
\* of its result are those of one JSON object: the braces and brackets are
\* balanced and nested, every entry of an object is a string, a colon and a
\* value, two entries or two values are separated by one comma, no comma
\* follows an opening delimiter or precedes a closing one, and e->depth is
\* back at 0.
C29_OutputStructure ==
    (Returned /\ NoError) =>
        /\ depth = 0
        /\ result[Len(result)] = 0
        /\ JsonObject(SubSeq(result, 1, Len(result) - 1))

\* A decode returned an object with two entries whose values are
\* containers, one of them with two entries of its own.
C29_Witness ==
    /\ Returned
    /\ NoError
    /\ Len(SelectSeq(result, LAMBDA b : b = COMMA)) >= 2
    /\ Len(SelectSeq(result, LAMBDA b : b = LSQUARE)) >= 1
    /\ Len(SelectSeq(result, LAMBDA b : b = LBRACE)) >= 2
    /\ DeepestOpen(JsonTokens(result, 1, "plain", <<>>), 1, 0, 0) >= 3

\* The literal x with every separator removed.
WithoutSeparators(x) == SelectSeq(x, LAMBDA b : b # USCORE)

\* What value outputs for the number expression x.
NumberText(x) == sprintfG(evalNumberExpression(x, Slice(0, Len(x))).f)

\* C30: a literal with separators between its digits that is accepted, an
\* integer of any base or a decimal with a fraction or an exponent, is
\* output as the value of the same literal with every separator removed.
C30_SeparatorsKeepValue ==
    Returned =>
        \A pl \in Places, x \in SeparatedLiterals :
            (DecodedAt(pl, x) /\ ~IsDiagnostic) =>
                result = JsonAt(pl, NumberText(WithoutSeparators(x)))

====
